---- MODULE Spec2Model ----
(***************************************************************************)
(* Claude Code Bugbot Autofix: the discovery/deduplication engine          *)
(* (bugbotMonitor.ts, state.ts, bugParser.ts) and the daemon lifecycle      *)
(* (main.ts: single-instance lock, polling loop, report processing,        *)
(* shutdown).  Several daemon processes share one lock token and one       *)
(* ledger; each process is a sequential program whose position is pc[p].   *)
(***************************************************************************)
EXTENDS Integers, Sequences, FiniteSets, TLC

\* ------------------------------------------------------------------------
\* Bounds of the model
\* ------------------------------------------------------------------------

\* process identifiers 1..MaxPid may start a daemon (pid 0 is a dead process)
MaxPid == 2

\* the latest wall-clock day a discovery call may observe
MaxNow == 11

\* the longest list of entries of a recordProcessedBugs call on its own
MaxEntries == 2

\* longest list of repository entries and of organizations in a configuration
MaxSpecs == 2

\* the most sleep() calls of one run
MaxSleeps == 3

\* the most bugs looked at in one report
MaxPlaces == 3

\* the largest chunk of output the fix tool writes at once
MaxChunk == 2

\* config.pollInterval, in seconds
pollInterval == 3

\* ------------------------------------------------------------------------
\* Program constants and configuration
\* ------------------------------------------------------------------------

DEFAULT_LOOKBACK_DAYS == 7

BOT_LOGIN == "cursor[bot]"

Procs == 1..MaxPid

\* wall-clock values (in days) a discovery call may read from Date.now()
NowValues == 10..MaxNow

\* AUTOFIX_GITHUB_REPOS after split("/"): one duplicate and one malformed
\* entry, so that deduplication and the owner/repo check are exercised
githubRepos == << <<"o", "r1">>, <<"o", "r1">>, <<"solo">> >>

\* AUTOFIX_GITHUB_ORGS
githubOrgs == << "o" >>

\* what listOwnerRepos(org) yields when it succeeds
OwnerRepos(org) ==
    IF org = "o" THEN << [owner |-> "o", name |-> "r1"],
                         [owner |-> "o", name |-> "r2"] >>
    ELSE IF org = "p" THEN << [owner |-> "p", name |-> "r3"] >>
    ELSE << >>

\* ------------------------------------------------------------------------
\* Remote review comments
\* ------------------------------------------------------------------------

\* a review comment as the API yields it; bugId = "" stands for a body
\* without the BUGBOT_BUG_ID marker
Comment(id, repo, pr, login, bugId, createdAt) ==
    [id |-> id, repo |-> repo, pr |-> pr, userLogin |-> login,
     bugId |-> bugId, createdAt |-> createdAt]

\* two repositories; PR 1 has a recent bug comment and one that leaves the
\* lookback window as the clock advances, PR 2 a recent bug comment and a bot
\* comment without marker (API yield order)
FullWorld ==
    << Comment(1, "o/r1", 1, BOT_LOGIN, "b1", 8),
       Comment(2, "o/r1", 1, BOT_LOGIN, "b2", 3),
       Comment(3, "o/r2", 2, BOT_LOGIN, "b3", 9),
       Comment(4, "o/r2", 2, BOT_LOGIN, "", 9) >>

\* one repository with one PR and one bug comment
SmallWorld ==
    << Comment(1, "o/r1", 1, BOT_LOGIN, "b1", 3) >>

\* the remote yields two bot comments with the same bugId on PR 1
DupWorld ==
    << Comment(1, "o/r1", 1, BOT_LOGIN, "b1", 8),
       Comment(2, "o/r1", 1, BOT_LOGIN, "b1", 9),
       Comment(3, "o/r2", 2, BOT_LOGIN, "b3", 9) >>

BugIds == {"b1", "b2", "b3"}

\* ------------------------------------------------------------------------
\* Helpers on sequences
\* ------------------------------------------------------------------------

Range(s) == {s[i] : i \in 1..Len(s)}

RECURSIVE MapBugIds(_)
MapBugIds(bugs) ==
    IF bugs = << >> THEN << >>
    ELSE << Head(bugs).bugId >> \o MapBugIds(Tail(bugs))

\* ------------------------------------------------------------------------
\* bugParser.ts
\* ------------------------------------------------------------------------

NoBug == [bugId |-> "", reviewCommentId |-> 0]

isBugbotComment(c) == c.userLogin = BOT_LOGIN /\ c.bugId # ""

parseBugbotComment(c) ==
    IF c.bugId = "" THEN NoBug
    ELSE [bugId |-> c.bugId, reviewCommentId |-> c.id]

\* ------------------------------------------------------------------------
\* state.ts: the ledger (table processed_bugs, primary key bug_id)
\* ------------------------------------------------------------------------

SHA == "sha1"
NULL == "null"
FAILED == "FAILED"
SKIPPED_PR_CLOSED == "SKIPPED_PR_CLOSED"
SKIPPED_RESOLVED == "SKIPPED_RESOLVED"

Outcomes == {SHA, NULL, FAILED, SKIPPED_PR_CLOSED, SKIPPED_RESOLVED}

\* no row for the key
NoRow == [outcome |-> "NOROW", repo |-> "", prNumber |-> 0]

\* CREATE TABLE IF NOT EXISTS: an existing table is kept as it is
initializeSchema(db) == db

\* variant: a null fix_commit_sha counts as not processed
isBugProcessed_nullRetry(db, bugId) ==
    db[bugId] # NoRow /\ db[bugId].outcome \notin {FAILED, NULL}

\* variant: any row counts as processed
isBugProcessed_anyRow(db, bugId) ==
    db[bugId] # NoRow

\* variant: a key without row counts as processed
isBugProcessed_noRowCheck(db, bugId) ==
    db[bugId].outcome # FAILED

\* variant: only a row with a commit counts as processed
isBugProcessed_commitOnly(db, bugId) ==
    db[bugId] # NoRow /\ db[bugId].outcome = SHA

isBugProcessed(db, bugId) ==
    db[bugId] # NoRow /\ db[bugId].outcome # FAILED

\* variant: the repository is not part of the query
hasFailedBugsForRepo_anyRepo(db, repo) ==
    \E b \in DOMAIN db : db[b].outcome = FAILED

hasFailedBugsForRepo(db, repo) ==
    \E b \in DOMAIN db : db[b].outcome = FAILED /\ db[b].repo = repo

\* called by computeSince; state.ts only has the per-repository variant
hasFailedBugs(db) ==
    \E b \in DOMAIN db : db[b].outcome = FAILED

\* INSERT OR REPLACE of one row per entry, in one transaction
RECURSIVE recordProcessedBugs(_, _, _)
recordProcessedBugs(db, bugs, fixCommitSha) ==
    IF bugs = << >> THEN db
    ELSE recordProcessedBugs(
           [db EXCEPT ![Head(bugs).bugId] =
               [outcome |-> fixCommitSha, repo |-> Head(bugs).repo,
                prNumber |-> Head(bugs).prNumber]],
           Tail(bugs), fixCommitSha)

\* a row of processed_bugs with all its columns
Row(bug, now, fixCommitSha) ==
    [bug_id |-> bug.bugId, repo |-> bug.repo, pr_number |-> bug.prNumber,
     processed_at |-> now, fix_commit_sha |-> fixCommitSha]

\* variant: INSERT OR IGNORE, a row with the key is kept as it is
insertOrReplace_ignore(rows, bug, now, fixCommitSha) ==
    IF \E r \in rows : r.bug_id = bug.bugId THEN rows
    ELSE rows \cup {Row(bug, now, fixCommitSha)}

\* INSERT OR REPLACE INTO processed_bugs: bug_id is the primary key, so the
\* row that holds the key is deleted before the new row is inserted
insertOrReplace(rows, bug, now, fixCommitSha) ==
    {r \in rows : r.bug_id # bug.bugId} \cup {Row(bug, now, fixCommitSha)}

\* the body of the transaction: insert.run for each bug in turn; the run
\* numbered failAt throws (failAt = 0: none does)
RECURSIVE runInserts(_, _, _, _, _, _)
runInserts(rows, bugs, i, now, fixCommitSha, failAt) ==
    IF i > Len(bugs) THEN [rows |-> rows, ok |-> TRUE]
    ELSE IF i = failAt THEN [rows |-> rows, ok |-> FALSE]
    ELSE runInserts(insertOrReplace(rows, bugs[i], now, fixCommitSha),
                    bugs, i + 1, now, fixCommitSha, failAt)

\* variant: the rows written before the throw are kept
transaction_noRollback(rows, bugs, now, fixCommitSha, failAt) ==
    runInserts(rows, bugs, 1, now, fixCommitSha, failAt)

\* this.db.transaction(fn)(): COMMIT when fn returns, ROLLBACK to the rows
\* at BEGIN and rethrow when fn throws
transaction(rows, bugs, now, fixCommitSha, failAt) ==
    LET r == runInserts(rows, bugs, 1, now, fixCommitSha, failAt)
    IN IF r.ok THEN r ELSE [rows |-> rows, ok |-> FALSE]

\* the columns of the table that the daemon reads, as bugId -> row or NoRow
Project(rows) ==
    [b \in BugIds |->
        IF \E r \in rows : r.bug_id = b
        THEN LET r == CHOOSE x \in rows : x.bug_id = b
             IN [outcome |-> r.fix_commit_sha, repo |-> r.repo,
                 prNumber |-> r.pr_number]
        ELSE NoRow]

\* no call is running; after a call: its outcome argument, the insert that
\* threw, whether it returned, and the outcomes of the rows it replaced
NoCall == [bugs |-> << >>, now |-> 0, fixCommitSha |-> "", failAt |-> 0,
           running |-> FALSE, ok |-> TRUE, replaced |-> {}]

\* ------------------------------------------------------------------------
\* githubClient.ts: responses of the remote, chosen per discovery call
\* ------------------------------------------------------------------------

\* an input of one step of a discovery call: the wall clock, the PRs that
\* are open, the comment ids whose review thread is resolved, and the remote
\* call that fails (if any)
NoErr == [op |-> "none", repo |-> "", pr |-> 0]

ErrCall(op, repo, pr) == [op |-> op, repo |-> repo, pr |-> pr]

Indices(world, repo) == {i \in 1..Len(world) : world[i].repo = repo}

\* the inputs of the start of a discovery call
BeginInputs ==
    [now : NowValues, open : {{}}, resolved : {{}},
     err : {NoErr} \cup {ErrCall("listOwnerRepos", githubOrgs[i], 0) :
                            i \in 1..Len(githubOrgs)}]

\* the inputs of the scan of one repository
RepoInputs(world, repo) ==
    [now : {0},
     open : SUBSET {<<repo, world[i].pr>> : i \in Indices(world, repo)},
     resolved : SUBSET {world[i].id : i \in Indices(world, repo)},
     err : {NoErr} \cup {ErrCall("listRepoBugbotComments", repo, 0)}
           \cup {ErrCall("getPullRequest", repo, world[i].pr) :
                    i \in Indices(world, repo)}
           \cup {ErrCall("getResolvedCommentIds", repo, world[i].pr) :
                    i \in Indices(world, repo)}]

\* one entry of the log of a discovery call: a remote call with its response
\* or a ledger write
LogEntry(op, repo, pr, since, ok, open, ids, bugs, outcome) ==
    [op |-> op, repo |-> repo, pr |-> pr, since |-> since, ok |-> ok,
     open |-> open, ids |-> ids, bugs |-> bugs, outcome |-> outcome]

\* the bot comments of a repository created at or after the lower bound
\* (since = {} is "no lower bound"), in API yield order
listRepoBugbotComments(world, repo, since) ==
    LET keep(c) == /\ c.repo = repo
                   /\ c.userLogin = BOT_LOGIN
                   /\ \A d \in since : c.createdAt >= d
    IN SelectSeq(world, keep)

\* the keys of the Map<prNumber, comments>, in insertion order
RECURSIVE PrNumbers(_, _)
PrNumbers(comments, seen) ==
    IF comments = << >> THEN << >>
    ELSE IF Head(comments).pr \in seen THEN PrNumbers(Tail(comments), seen)
    ELSE << Head(comments).pr >>
         \o PrNumbers(Tail(comments), seen \cup {Head(comments).pr})

\* variant: only the first comment of the PR is looked at
CommentsOfPr_firstOnly(comments, prNumber) ==
    LET keep(c) == c.pr = prNumber
        own == SelectSeq(comments, keep)
    IN IF own = << >> THEN << >> ELSE << Head(own) >>

CommentsOfPr(comments, prNumber) ==
    LET keep(c) == c.pr = prNumber IN SelectSeq(comments, keep)

\* a PullRequest, or NoPr for null
NoPr == [repo |-> "", number |-> 0]

getPullRequest(in, repo, prNumber) ==
    IF <<repo, prNumber>> \in in.open
    THEN [repo |-> repo, number |-> prNumber] ELSE NoPr

\* ids of the first comments of the PR's resolved review threads
getResolvedCommentIds(world, in, repo, prNumber) ==
    {world[i].id : i \in {j \in 1..Len(world) :
        /\ world[j].repo = repo
        /\ world[j].pr = prNumber
        /\ world[j].id \in in.resolved}}

\* ------------------------------------------------------------------------
\* bugbotMonitor.ts
\* ------------------------------------------------------------------------

\* variant: the lookback window is applied also when FAILED rows exist
computeSince_alwaysBounded(db, now) ==
    {now - DEFAULT_LOOKBACK_DAYS}

\* the lower bound of the scan: {} when undefined, {day} otherwise
computeSince(db, now) ==
    IF hasFailedBugs(db) THEN {}
    ELSE {now - DEFAULT_LOOKBACK_DAYS}

\* (bugId, repo, prNumber) entries handed to recordProcessedBugs
RECURSIVE LedgerEntries(_, _, _)
LedgerEntries(bugs, repo, prNumber) ==
    IF bugs = << >> THEN << >>
    ELSE << [bugId |-> Head(bugs).bugId, repo |-> repo, prNumber |-> prNumber] >>
         \o LedgerEntries(Tail(bugs), repo, prNumber)

RECURSIVE ParseAll(_)
ParseAll(comments) ==
    IF comments = << >> THEN << >>
    ELSE << parseBugbotComment(Head(comments)) >> \o ParseAll(Tail(comments))

\* variant: the first pass does not consult the ledger
candidateBugs_noLedgerCheck(db, comments) ==
    LET bugbotComments == SelectSeq(comments, isBugbotComment)
        isCandidate(c) == parseBugbotComment(c) # NoBug
    IN ParseAll(SelectSeq(bugbotComments, isCandidate))

\* processPrComments, first pass: the bugs of the bot comments that parse
\* and are not yet processed
candidateBugs(db, comments) ==
    LET bugbotComments == SelectSeq(comments, isBugbotComment)
        isCandidate(c) ==
            /\ parseBugbotComment(c) # NoBug
            /\ ~isBugProcessed(db, parseBugbotComment(c).bugId)
    IN ParseAll(SelectSeq(bugbotComments, isCandidate))

WriteEntry(repo, prNumber, bugs, outcome) ==
    LogEntry("recordProcessedBugs", repo, prNumber, {}, TRUE, TRUE, {},
             Range(MapBugIds(bugs)), outcome)

\* variant: a closed PR is skipped without a ledger write
closedPr_noWrite(acc, repo, prNumber, candidates) == acc

\* variant: the bugs of a closed PR are recorded as failed
closedPr_recordsFailed(acc, repo, prNumber, candidates) ==
    [acc EXCEPT
        !.ledger = recordProcessedBugs(@,
                      LedgerEntries(candidates, repo, prNumber), FAILED),
        !.calls = @ \o << WriteEntry(repo, prNumber, candidates, FAILED) >>]

\* processPrComments, PR closed or inaccessible: the candidates are recorded
\* SKIPPED_PR_CLOSED and null is returned
closedPr(acc, repo, prNumber, candidates) ==
    [acc EXCEPT
        !.ledger = recordProcessedBugs(@,
                      LedgerEntries(candidates, repo, prNumber),
                      SKIPPED_PR_CLOSED),
        !.calls = @ \o << WriteEntry(repo, prNumber, candidates,
                                     SKIPPED_PR_CLOSED) >>]

\* variant: resolved bugs are recorded but stay in the report
openPr_keepResolved(acc, pr, candidates, resolvedIds) ==
    LET isResolved(b) == b.reviewCommentId \in resolvedIds
        resolvedBugs == SelectSeq(candidates, isResolved)
    IN [ledger |->
            IF resolvedBugs # << >>
            THEN recordProcessedBugs(acc.ledger,
                    LedgerEntries(resolvedBugs, pr.repo, pr.number),
                    SKIPPED_RESOLVED)
            ELSE acc.ledger,
        calls |->
            IF resolvedBugs # << >>
            THEN acc.calls \o << WriteEntry(pr.repo, pr.number, resolvedBugs,
                                            SKIPPED_RESOLVED) >>
            ELSE acc.calls,
        reports |-> acc.reports \o << [pr |-> pr, bugs |-> candidates] >>]

\* processPrComments, PR open: the candidates of resolved threads are
\* recorded SKIPPED_RESOLVED, the others form the report
openPr(acc, pr, candidates, resolvedIds) ==
    LET isResolved(b) == b.reviewCommentId \in resolvedIds
        isUnresolved(b) == b.reviewCommentId \notin resolvedIds
        resolvedBugs == SelectSeq(candidates, isResolved)
        unprocessedBugs == SelectSeq(candidates, isUnresolved)
    IN [ledger |->
            IF resolvedBugs # << >>
            THEN recordProcessedBugs(acc.ledger,
                    LedgerEntries(resolvedBugs, pr.repo, pr.number),
                    SKIPPED_RESOLVED)
            ELSE acc.ledger,
        calls |->
            IF resolvedBugs # << >>
            THEN acc.calls \o << WriteEntry(pr.repo, pr.number, resolvedBugs,
                                            SKIPPED_RESOLVED) >>
            ELSE acc.calls,
        reports |->
            IF unprocessedBugs = << >> THEN acc.reports
            ELSE acc.reports \o << [pr |-> pr, bugs |-> unprocessedBugs] >>]

\* variant: the resolved threads are fetched before the PR state
processPrComments_resolvedFirst(acc, world, in, repo, prNumber, comments) ==
    LET candidates == candidateBugs(acc.ledger, comments)
        prThrows == in.err = ErrCall("getPullRequest", repo, prNumber)
        pr == getPullRequest(in, repo, prNumber)
        callPr == LogEntry("getPullRequest", repo, prNumber, {}, ~prThrows,
                           ~prThrows /\ pr # NoPr, {}, {}, "")
        resThrows == in.err = ErrCall("getResolvedCommentIds", repo, prNumber)
        resolvedIds == getResolvedCommentIds(world, in, repo, prNumber)
        callRes == LogEntry("getResolvedCommentIds", repo, prNumber, {},
                            ~resThrows, TRUE,
                            IF resThrows THEN {} ELSE resolvedIds, {}, "")
        acc1 == [acc EXCEPT !.calls = @ \o << callRes >>]
        acc2 == [acc1 EXCEPT !.calls = @ \o << callPr >>]
    IN
    IF candidates = << >> THEN acc
    ELSE IF resThrows THEN acc1
    ELSE IF prThrows THEN acc2
    ELSE IF pr = NoPr THEN closedPr(acc2, repo, prNumber, candidates)
    ELSE openPr(acc2, pr, candidates, resolvedIds)

\* variant: when the resolved threads cannot be fetched the candidates are
\* recorded SKIPPED_RESOLVED
processPrComments_throwSkips(acc, world, in, repo, prNumber, comments) ==
    LET candidates == candidateBugs(acc.ledger, comments)
        prThrows == in.err = ErrCall("getPullRequest", repo, prNumber)
        pr == getPullRequest(in, repo, prNumber)
        callPr == LogEntry("getPullRequest", repo, prNumber, {}, ~prThrows,
                           ~prThrows /\ pr # NoPr, {}, {}, "")
        resThrows == in.err = ErrCall("getResolvedCommentIds", repo, prNumber)
        resolvedIds == getResolvedCommentIds(world, in, repo, prNumber)
        callRes == LogEntry("getResolvedCommentIds", repo, prNumber, {},
                            ~resThrows, TRUE,
                            IF resThrows THEN {} ELSE resolvedIds, {}, "")
        acc1 == [acc EXCEPT !.calls = @ \o << callPr >>]
        acc2 == [acc1 EXCEPT !.calls = @ \o << callRes >>]
    IN
    IF candidates = << >> THEN acc
    ELSE IF prThrows THEN acc1
    ELSE IF pr = NoPr THEN closedPr(acc1, repo, prNumber, candidates)
    ELSE IF resThrows
    THEN [acc2 EXCEPT
             !.ledger = recordProcessedBugs(@,
                           LedgerEntries(candidates, repo, prNumber),
                           SKIPPED_RESOLVED)]
    ELSE openPr(acc2, pr, candidates, resolvedIds)

\* one PR of the scan.  acc = [ledger, reports, calls] is the state of the
\* discovery call so far; a throw leaves acc without a report for the PR.
processPrComments(acc, world, in, repo, prNumber, comments) ==
    LET candidates == candidateBugs(acc.ledger, comments)
        prThrows == in.err = ErrCall("getPullRequest", repo, prNumber)
        pr == getPullRequest(in, repo, prNumber)
        callPr == LogEntry("getPullRequest", repo, prNumber, {}, ~prThrows,
                           ~prThrows /\ pr # NoPr, {}, {}, "")
        resThrows == in.err = ErrCall("getResolvedCommentIds", repo, prNumber)
        resolvedIds == getResolvedCommentIds(world, in, repo, prNumber)
        callRes == LogEntry("getResolvedCommentIds", repo, prNumber, {},
                            ~resThrows, TRUE,
                            IF resThrows THEN {} ELSE resolvedIds, {}, "")
        acc1 == [acc EXCEPT !.calls = @ \o << callPr >>]
        acc2 == [acc1 EXCEPT !.calls = @ \o << callRes >>]
    IN
    IF candidates = << >> THEN acc
    ELSE IF prThrows THEN acc1
    ELSE IF pr = NoPr THEN closedPr(acc1, repo, prNumber, candidates)
    ELSE IF resThrows THEN acc2
    ELSE openPr(acc2, pr, candidates, resolvedIds)

\* the loop over the PRs of one repository
RECURSIVE ScanPrs(_, _, _, _, _, _)
ScanPrs(acc, world, in, repo, prNumbers, comments) ==
    IF prNumbers = << >> THEN acc
    ELSE ScanPrs(
           processPrComments(acc, world, in, repo, Head(prNumbers),
                             CommentsOfPr(comments, Head(prNumbers))),
           world, in, repo, Tail(prNumbers), comments)

\* variant: a failed fetch discards the reports gathered so far
scanRepoForBugs_failDropsReports(acc, world, in, repo, since) ==
    LET throws == in.err = ErrCall("listRepoBugbotComments", repo, 0)
        comments == listRepoBugbotComments(world, repo, since)
        call == LogEntry("listRepoBugbotComments", repo, 0, since, ~throws,
                         TRUE, IF throws THEN {} ELSE
                               {comments[i].id : i \in 1..Len(comments)},
                         {}, "")
        acc1 == [acc EXCEPT !.calls = @ \o << call >>]
    IN IF throws THEN [acc1 EXCEPT !.reports = << >>]
       ELSE ScanPrs(acc1, world, in, repo, PrNumbers(comments, {}), comments)

\* a failed fetch of the repository's comments is caught by the caller
scanRepoForBugs(acc, world, in, repo, since) ==
    LET throws == in.err = ErrCall("listRepoBugbotComments", repo, 0)
        comments == listRepoBugbotComments(world, repo, since)
        call == LogEntry("listRepoBugbotComments", repo, 0, since, ~throws,
                         TRUE, IF throws THEN {} ELSE
                               {comments[i].id : i \in 1..Len(comments)},
                         {}, "")
        acc1 == [acc EXCEPT !.calls = @ \o << call >>]
    IN IF throws THEN acc1
       ELSE ScanPrs(acc1, world, in, repo, PrNumbers(comments, {}), comments)

\* explicit repositories first, then the repositories of each organization,
\* without duplicates; res = [repos, seen, calls]
RECURSIVE ExplicitRepos(_, _)
ExplicitRepos(specs, res) ==
    IF specs = << >> THEN res
    ELSE LET parts == Head(specs)
             valid == Len(parts) >= 2 /\ parts[1] # "" /\ parts[2] # ""
             repoKey == parts[1] \o "/" \o parts[2]
         IN ExplicitRepos(Tail(specs),
              IF ~valid \/ repoKey \in res.seen THEN res
              ELSE [res EXCEPT !.repos = @ \o << repoKey >>,
                               !.seen = @ \cup {repoKey}])

RECURSIVE AddOwnerRepos(_, _)
AddOwnerRepos(repos, res) ==
    IF repos = << >> THEN res
    ELSE LET repoKey == Head(repos).owner \o "/" \o Head(repos).name
         IN AddOwnerRepos(Tail(repos),
              IF repoKey \in res.seen THEN res
              ELSE [res EXCEPT !.repos = @ \o << repoKey >>,
                               !.seen = @ \cup {repoKey}])

\* variant: a listOwnerRepos failure ends the loop over the organizations
RECURSIVE OrgRepos_failAborts(_, _, _)
OrgRepos_failAborts(orgs, in, res) ==
    IF orgs = << >> THEN res
    ELSE LET throws == in.err = ErrCall("listOwnerRepos", Head(orgs), 0)
             call == LogEntry("listOwnerRepos", Head(orgs), 0, {}, ~throws,
                              TRUE, {}, {}, "")
             res1 == [res EXCEPT !.calls = @ \o << call >>]
         IN IF throws THEN res1
            ELSE OrgRepos_failAborts(Tail(orgs), in,
                    AddOwnerRepos(OwnerRepos(Head(orgs)), res1))

RECURSIVE OrgRepos(_, _, _)
OrgRepos(orgs, in, res) ==
    IF orgs = << >> THEN res
    ELSE LET throws == in.err = ErrCall("listOwnerRepos", Head(orgs), 0)
             call == LogEntry("listOwnerRepos", Head(orgs), 0, {}, ~throws,
                              TRUE, {}, {}, "")
             res1 == [res EXCEPT !.calls = @ \o << call >>]
         IN OrgRepos(Tail(orgs), in,
              IF throws THEN res1
              ELSE AddOwnerRepos(OwnerRepos(Head(orgs)), res1))

getAllMonitoredRepos(in) ==
    OrgRepos(githubOrgs, in,
             ExplicitRepos(githubRepos,
                           [repos |-> << >>, seen |-> {}, calls |-> << >>]))

\* ------------------------------------------------------------------------
\* State
\* ------------------------------------------------------------------------

VARIABLES
    world,          \* the review comments on the remote, in API yield order
    lockFile,       \* the file daemon.lock: NoFile or [creator, content]
    ledger,         \* the table processed_bugs: bugId -> row or NoRow
    scan,           \* per process: log of its current discovery call
    pc,             \* position of each process in main()
    lockPath,       \* main's lockPath is non-null
    existingPid,    \* acquireLock: the pids read from the lock file
    lockResult,     \* how acquireLock went for the process
    handlers,       \* SIGINT/SIGTERM handlers are registered
    isShuttingDown, \* AutofixDaemon.isShuttingDown
    dbOpen,         \* the StateStore connection is open
    reports,        \* pollCycle: reports not yet taken by the for loop
    cur,            \* pollCycle: the report taken last
    fixResult,      \* processReport: what fixBugsOnPrBranch did
    writes,         \* processReport: ledger writes made for cur
    exitCode,       \* exit code of an exited process
    opened,         \* processes that have opened the ledger
    writers,        \* processes that have written the ledger
    elapsed,        \* sleep(): seconds since the sleep began
    table,          \* processed_bugs as a set of rows with all columns
    call,           \* the last recordProcessedBugs call made on table
    pushed,         \* bugIds with a fix commit pushed to their PR branch
    postResult,     \* processReport: how postFixComment went for cur
    listing,        \* the last getAllMonitoredRepos call and its result
    timers,         \* a sleep() call on its own: its promise and its timers
    child           \* a runClaudeFix() call on its own: promise, child, timers

vars == <<world, lockFile, ledger, scan, pc, lockPath, existingPid, lockResult,
          handlers, isShuttingDown, dbOpen, reports, cur, fixResult, writes,
          exitCode, opened, writers, elapsed, table, call, pushed,
          postResult, listing, timers, child>>

procVars == <<lockPath, existingPid, lockResult, handlers, isShuttingDown,
              dbOpen, reports, cur, fixResult, writes, exitCode, elapsed,
              postResult>>

tableVars == <<table, call>>

NoFile == [creator |-> -1, content |-> {}]

\* a token left by a daemon (pid 0) that died holding the lock
StaleLock == [creator |-> 0, content |-> {0}]

\* a token left by a daemon that died between creating it and writing its pid
EmptyLock == [creator |-> 0, content |-> {}]

\* no sleep() call was made.  flag is isShuttingDown; sleeps holds, for each
\* sleep() call, its timeout, its shutdown check, the seconds it has waited
\* and whether its promise has resolved
NoSleep == [flag |-> FALSE, sleeps |-> << >>]

\* no runClaudeFix() call was made.  state is the child's: none, running,
\* failed (spawn error not yet reported), errored, closed; settles counts
\* the resolve and reject calls; code -1 stands for null; result is what
\* fixBugsOnPrBranch hands to processReport
NoChild == [state |-> "none", settled |-> FALSE, promise |-> "pending",
            settles |-> 0, killTimer |-> "none", graceTimer |-> "none",
            sent |-> {}, code |-> -1, signal |-> "none", late |-> FALSE,
            stdout |-> 0, value |-> -1, result |-> "none"]

\* no getAllMonitoredRepos call was made
NoListing == [specs |-> << >>, orgs |-> << >>, err |-> NoErr,
              repos |-> << >>, calls |-> << >>, done |-> FALSE]

NoScan == [pre |-> [b \in BugIds |-> NoRow], now |-> 0, since |-> {},
           todo |-> << >>, calls |-> << >>, result |-> << >>]

NoReport == [pr |-> NoPr, bugs |-> << >>]

\* process.kill(pid, 0) succeeds
Alive(q) == q \in Procs /\ pc[q] \notin {"idle", "exited", "killed"}

InitState(w) ==
    /\ world = w
    /\ lockFile \in {NoFile, StaleLock, EmptyLock}
    /\ ledger = [b \in BugIds |-> NoRow]
    /\ scan = [p \in Procs |-> NoScan]
    /\ pc = [p \in Procs |-> "idle"]
    /\ lockPath = [p \in Procs |-> FALSE]
    /\ existingPid = [p \in Procs |-> {}]
    /\ lockResult = [p \in Procs |-> "none"]
    /\ handlers = [p \in Procs |-> FALSE]
    /\ isShuttingDown = [p \in Procs |-> FALSE]
    /\ dbOpen = [p \in Procs |-> FALSE]
    /\ reports = [p \in Procs |-> << >>]
    /\ cur = [p \in Procs |-> NoReport]
    /\ fixResult = [p \in Procs |-> "none"]
    /\ writes = [p \in Procs |-> << >>]
    /\ exitCode = [p \in Procs |-> 0]
    /\ opened = {}
    /\ writers = {}
    /\ elapsed = [p \in Procs |-> 0]
    /\ table = {}
    /\ call = NoCall
    /\ pushed = {}
    /\ postResult = [p \in Procs |-> "none"]
    /\ timers = NoSleep
    /\ child = NoChild

InitWith(w) == InitState(w) /\ listing = NoListing

Init == InitWith(FullWorld)

\* ------------------------------------------------------------------------
\* main.ts: start-up and the single-instance lock
\* ------------------------------------------------------------------------

\* the operator starts a daemon process
Start(p) ==
    /\ pc[p] = "idle"
    /\ pc' = [pc EXCEPT ![p] = "load_config"]
    /\ UNCHANGED <<tableVars, listing, timers, child, pushed, world, lockFile,
                   ledger, scan, procVars, opened, writers>>

\* variant: main goes from the configuration to the daemon's construction
\* without acquireLock
LoadConfig_skipLock(p) ==
    /\ pc[p] = "load_config"
    /\ \E valid \in BOOLEAN :
          pc' = [pc EXCEPT ![p] = IF valid THEN "construct" ELSE "fatal"]
    /\ UNCHANGED <<tableVars, listing, timers, child, pushed, world, lockFile,
                   ledger, scan, procVars, opened, writers>>

\* main: loadConfig() throws on an invalid configuration
LoadConfig(p) ==
    /\ pc[p] = "load_config"
    /\ \E valid \in BOOLEAN :
          pc' = [pc EXCEPT ![p] = IF valid THEN "acquire" ELSE "fatal"]
    /\ UNCHANGED <<tableVars, listing, timers, child, pushed, world, lockFile,
                   ledger, scan, procVars, opened, writers>>

\* acquireLock: openSync(lockPath, "wx"); EEXIST leads to the catch block
LockCreate(p) ==
    /\ pc[p] = "acquire"
    /\ IF lockFile = NoFile
       THEN /\ lockFile' = [creator |-> p, content |-> {}]
            /\ pc' = [pc EXCEPT ![p] = "lock_write"]
       ELSE /\ lockFile' = lockFile
            /\ pc' = [pc EXCEPT ![p] = "lock_read"]
    /\ UNCHANGED <<tableVars, listing, timers, child, pushed, world, ledger,
                   scan, procVars, opened, writers>>

\* writeFileSync(fd, pid) writes the file p created, which may have been
\* unlinked since
WritePid(p, file) ==
    IF file.creator = p THEN [file EXCEPT !.content = {p}] ELSE file

\* writeFileSync, closeSync, return lockPath
LockWritePid(p) ==
    /\ pc[p] = "lock_write"
    /\ lockFile' = WritePid(p, lockFile)
    /\ lockPath' = [lockPath EXCEPT ![p] = TRUE]
    /\ lockResult' = [lockResult EXCEPT ![p] = "created"]
    /\ pc' = [pc EXCEPT ![p] = "construct"]
    /\ UNCHANGED <<tableVars, listing, timers, child, pushed, postResult,
                   world, ledger, scan, existingPid, handlers, isShuttingDown,
                   dbOpen, reports, cur, fixResult, writes, exitCode, opened,
                   writers, elapsed>>

\* readFileSync(lockPath); ENOENT escapes acquireLock
LockRead(p) ==
    /\ pc[p] = "lock_read"
    /\ IF lockFile = NoFile
       THEN /\ pc' = [pc EXCEPT ![p] = "fatal"]
            /\ lockResult' = [lockResult EXCEPT ![p] = "vanished"]
            /\ existingPid' = existingPid
       ELSE /\ pc' = [pc EXCEPT ![p] = "lock_probe"]
            /\ lockResult' = lockResult
            /\ existingPid' = [existingPid EXCEPT ![p] = lockFile.content]
    /\ UNCHANGED <<tableVars, listing, timers, child, pushed, postResult,
                   world, lockFile, ledger, scan, lockPath, handlers,
                   isShuttingDown, dbOpen, reports, cur, fixResult, writes,
                   exitCode, opened, writers, elapsed>>

isProcessRunning(pid) == Alive(pid)

\* the pid parses and its process is alive
LockHeldByLive(p) ==
    existingPid[p] # {} /\ \E q \in existingPid[p] : isProcessRunning(q)

\* variant: a live holder is noticed but the token is reclaimed anyway
LockProbe_ignoreLive(p) ==
    /\ pc[p] = "lock_probe"
    /\ pc' = [pc EXCEPT ![p] = "lock_unlink"]
    /\ lockResult' = [lockResult EXCEPT ![p] =
                         IF LockHeldByLive(p) THEN "live" ELSE "stale"]
    /\ UNCHANGED <<tableVars, listing, timers, child, pushed, postResult,
                   world, lockFile, ledger, scan, lockPath, existingPid,
                   handlers, isShuttingDown, dbOpen, reports, cur, fixResult,
                   writes, exitCode, opened, writers, elapsed>>

\* !isNaN(pid) && isProcessRunning(pid): throw, otherwise reclaim
LockProbe(p) ==
    /\ pc[p] = "lock_probe"
    /\ IF LockHeldByLive(p)
       THEN /\ pc' = [pc EXCEPT ![p] = "fatal"]
            /\ lockResult' = [lockResult EXCEPT ![p] = "live"]
       ELSE /\ pc' = [pc EXCEPT ![p] = "lock_unlink"]
            /\ lockResult' = [lockResult EXCEPT ![p] = "stale"]
    /\ UNCHANGED <<tableVars, listing, timers, child, pushed, postResult,
                   world, lockFile, ledger, scan, lockPath, existingPid,
                   handlers, isShuttingDown, dbOpen, reports, cur, fixResult,
                   writes, exitCode, opened, writers, elapsed>>

\* variant: the stale token is not unlinked before the re-creation
LockUnlink_keepFile(p) ==
    /\ pc[p] = "lock_unlink"
    /\ pc' = [pc EXCEPT ![p] = "lock_recreate"]
    /\ UNCHANGED <<tableVars, listing, timers, child, pushed, world, lockFile,
                   ledger, scan, procVars, opened, writers>>

\* unlinkSync(lockPath) of the stale token; a failure is fatal
LockUnlink(p) ==
    /\ pc[p] = "lock_unlink"
    /\ IF lockFile = NoFile
       THEN /\ pc' = [pc EXCEPT ![p] = "fatal"]
            /\ lockResult' = [lockResult EXCEPT ![p] = "reclaim_failed"]
            /\ lockFile' = lockFile
       ELSE /\ pc' = [pc EXCEPT ![p] = "lock_recreate"]
            /\ lockResult' = lockResult
            /\ lockFile' = NoFile
    /\ UNCHANGED <<tableVars, listing, timers, child, pushed, postResult,
                   world, ledger, scan, lockPath, existingPid, handlers,
                   isShuttingDown, dbOpen, reports, cur, fixResult, writes,
                   exitCode, opened, writers, elapsed>>

\* openSync(lockPath, "wx") after the unlink; a failure is fatal
LockRecreate(p) ==
    /\ pc[p] = "lock_recreate"
    /\ IF lockFile = NoFile
       THEN /\ pc' = [pc EXCEPT ![p] = "lock_rewrite"]
            /\ lockResult' = lockResult
            /\ lockFile' = [creator |-> p, content |-> {}]
       ELSE /\ pc' = [pc EXCEPT ![p] = "fatal"]
            /\ lockResult' = [lockResult EXCEPT ![p] = "reclaim_failed"]
            /\ lockFile' = lockFile
    /\ UNCHANGED <<tableVars, listing, timers, child, pushed, postResult,
                   world, ledger, scan, lockPath, existingPid, handlers,
                   isShuttingDown, dbOpen, reports, cur, fixResult, writes,
                   exitCode, opened, writers, elapsed>>

\* writeFileSync, closeSync of the re-created token, return lockPath
LockRewritePid(p) ==
    /\ pc[p] = "lock_rewrite"
    /\ lockFile' = WritePid(p, lockFile)
    /\ lockPath' = [lockPath EXCEPT ![p] = TRUE]
    /\ lockResult' = [lockResult EXCEPT ![p] = "reclaimed"]
    /\ pc' = [pc EXCEPT ![p] = "construct"]
    /\ UNCHANGED <<tableVars, listing, timers, child, pushed, postResult,
                   world, ledger, scan, existingPid, handlers, isShuttingDown,
                   dbOpen, reports, cur, fixResult, writes, exitCode, opened,
                   writers, elapsed>>

\* releaseLock: unlinkSync(lockPath), errors ignored
releaseLock(file) == NoFile

\* new AutofixDaemon(config): the StateStore opens the ledger
Construct(p) ==
    /\ pc[p] = "construct"
    /\ dbOpen' = [dbOpen EXCEPT ![p] = TRUE]
    /\ ledger' = initializeSchema(ledger)
    /\ opened' = opened \cup {p}
    /\ pc' = [pc EXCEPT ![p] = "initialize"]
    /\ UNCHANGED <<tableVars, listing, timers, child, pushed, postResult,
                   world, lockFile, scan, lockPath, existingPid, lockResult,
                   handlers, isShuttingDown, reports, cur, fixResult, writes,
                   exitCode, writers, elapsed>>

\* daemon.initialize(): verifyPrerequisites() throws when gh, claude or git
\* is missing
Initialize(p) ==
    /\ pc[p] = "initialize"
    /\ \E ok \in BOOLEAN :
          pc' = [pc EXCEPT ![p] = IF ok THEN "run" ELSE "fatal"]
    /\ UNCHANGED <<tableVars, listing, timers, child, pushed, world, lockFile,
                   ledger, scan, procVars, opened, writers>>

\* variant: the catch block ends the process with code 0
Fatal_exitZero(p) ==
    /\ pc[p] = "fatal"
    /\ lockFile' = IF lockPath[p] THEN releaseLock(lockFile) ELSE lockFile
    /\ exitCode' = [exitCode EXCEPT ![p] = 0]
    /\ pc' = [pc EXCEPT ![p] = "exited"]
    /\ UNCHANGED <<tableVars, listing, timers, child, pushed, postResult,
                   world, ledger, scan, lockPath, existingPid, lockResult,
                   handlers, isShuttingDown, dbOpen, reports, cur, fixResult,
                   writes, opened, writers, elapsed>>

\* variant: the catch block releases the lock whether or not it was acquired
Fatal_alwaysRelease(p) ==
    /\ pc[p] = "fatal"
    /\ lockFile' = releaseLock(lockFile)
    /\ exitCode' = [exitCode EXCEPT ![p] = 1]
    /\ pc' = [pc EXCEPT ![p] = "exited"]
    /\ UNCHANGED <<tableVars, listing, timers, child, pushed, postResult,
                   world, ledger, scan, lockPath, existingPid, lockResult,
                   handlers, isShuttingDown, dbOpen, reports, cur, fixResult,
                   writes, opened, writers, elapsed>>

\* main's catch block: release the lock if acquired, process.exit(1)
Fatal(p) ==
    /\ pc[p] = "fatal"
    /\ lockFile' = IF lockPath[p] THEN releaseLock(lockFile) ELSE lockFile
    /\ exitCode' = [exitCode EXCEPT ![p] = 1]
    /\ pc' = [pc EXCEPT ![p] = "exited"]
    /\ UNCHANGED <<tableVars, listing, timers, child, pushed, postResult,
                   world, ledger, scan, lockPath, existingPid, lockResult,
                   handlers, isShuttingDown, dbOpen, reports, cur, fixResult,
                   writes, opened, writers, elapsed>>

\* ------------------------------------------------------------------------
\* main.ts: the polling loop
\* ------------------------------------------------------------------------

\* run(): registerShutdownHandlers()
RegisterHandlers(p) ==
    /\ pc[p] = "run"
    /\ handlers' = [handlers EXCEPT ![p] = TRUE]
    /\ pc' = [pc EXCEPT ![p] = "loop"]
    /\ UNCHANGED <<tableVars, listing, timers, child, pushed, postResult,
                   world, lockFile, ledger, scan, lockPath, existingPid,
                   lockResult, isShuttingDown, dbOpen, reports, cur,
                   fixResult, writes, exitCode, opened, writers, elapsed>>

\* variant: the loop condition does not read the flag
LoopCheck_ignoreFlag(p) ==
    /\ pc[p] = "loop"
    /\ pc' = [pc EXCEPT ![p] = "poll"]
    /\ UNCHANGED <<tableVars, listing, timers, child, pushed, world, lockFile,
                   ledger, scan, procVars, opened, writers>>

\* while (!this.isShuttingDown)
LoopCheck(p) ==
    /\ pc[p] = "loop"
    /\ pc' = [pc EXCEPT ![p] = IF isShuttingDown[p] THEN "shutdown" ELSE "poll"]
    /\ UNCHANGED <<tableVars, listing, timers, child, pushed, world, lockFile,
                   ledger, scan, procVars, opened, writers>>

\* discoverUnprocessedBugs up to its loop: computeSince() and
\* getAllMonitoredRepos()
DiscoverBegin(p) ==
    /\ pc[p] = "poll"
    /\ \E in \in BeginInputs :
       \E monitored \in {getAllMonitoredRepos(in)} :
          scan' = [scan EXCEPT ![p] =
                      [pre |-> ledger, now |-> in.now,
                       since |-> computeSince(ledger, in.now),
                       todo |-> monitored.repos, calls |-> monitored.calls,
                       result |-> << >>]]
    /\ pc' = [pc EXCEPT ![p] = "scanning"]
    /\ UNCHANGED <<tableVars, listing, timers, child, pushed, world, lockFile,
                   ledger, procVars, opened, writers>>

\* discoverUnprocessedBugs: one iteration of the loop over the repositories
DiscoverScanRepo(p) ==
    /\ pc[p] = "scanning"
    /\ scan[p].todo # << >>
    /\ \E in \in RepoInputs(world, Head(scan[p].todo)) :
       \E acc \in {scanRepoForBugs(
                      [ledger |-> ledger, reports |-> scan[p].result,
                       calls |-> scan[p].calls],
                      world, in, Head(scan[p].todo), scan[p].since)} :
          /\ ledger' = acc.ledger
          /\ scan' = [scan EXCEPT ![p].todo = Tail(@),
                                  ![p].calls = acc.calls,
                                  ![p].result = acc.reports]
          /\ writers' = IF acc.ledger # ledger THEN writers \cup {p}
                        ELSE writers
    /\ UNCHANGED <<tableVars, listing, timers, child, pushed, world, lockFile,
                   pc, procVars, opened>>

\* discoverUnprocessedBugs returns its reports to pollCycle
DiscoverReturn(p) ==
    /\ pc[p] = "scanning"
    /\ scan[p].todo = << >>
    /\ reports' = [reports EXCEPT ![p] = scan[p].result]
    /\ pc' = [pc EXCEPT ![p] = "polled"]
    /\ UNCHANGED <<tableVars, listing, timers, child, pushed, postResult,
                   world, lockFile, ledger, scan, lockPath, existingPid,
                   lockResult, handlers, isShuttingDown, dbOpen, cur,
                   fixResult, writes, exitCode, opened, writers, elapsed>>

\* pollCycle: reports.length === 0 returns, otherwise the for loop starts
CheckReports(p) ==
    /\ pc[p] = "polled"
    /\ scan' = [scan EXCEPT ![p] = NoScan]
    /\ pc' = [pc EXCEPT ![p] =
                IF reports[p] = << >> THEN "cycle_end" ELSE "for_reports"]
    /\ UNCHANGED <<tableVars, listing, timers, child, pushed, world, lockFile,
                   ledger, procVars, opened, writers>>

\* variant: the loop takes a report without removing it from the list
ForReports_noAdvance(p) ==
    /\ pc[p] = "for_reports"
    /\ IF reports[p] = << >> \/ isShuttingDown[p]
       THEN /\ pc' = [pc EXCEPT ![p] = "cycle_end"]
            /\ reports' = [reports EXCEPT ![p] = << >>]
            /\ cur' = [cur EXCEPT ![p] = NoReport]
            /\ fixResult' = [fixResult EXCEPT ![p] = "none"]
       ELSE /\ pc' = [pc EXCEPT ![p] = "fixing"]
            /\ reports' = reports
            /\ cur' = [cur EXCEPT ![p] = Head(reports[p])]
            /\ fixResult' = [fixResult EXCEPT ![p] = "running"]
    /\ writes' = [writes EXCEPT ![p] = << >>]
    /\ postResult' = [postResult EXCEPT ![p] = "none"]
    /\ UNCHANGED <<tableVars, listing, timers, child, pushed, world, lockFile,
                   ledger, scan, lockPath, existingPid, lockResult, handlers,
                   isShuttingDown, dbOpen, exitCode, opened, writers, elapsed>>

\* variant: the for loop has no shutdown check
ForReports_ignoreFlag(p) ==
    /\ pc[p] = "for_reports"
    /\ IF reports[p] = << >>
       THEN /\ pc' = [pc EXCEPT ![p] = "cycle_end"]
            /\ reports' = [reports EXCEPT ![p] = << >>]
            /\ cur' = [cur EXCEPT ![p] = NoReport]
            /\ fixResult' = [fixResult EXCEPT ![p] = "none"]
       ELSE /\ pc' = [pc EXCEPT ![p] = "fixing"]
            /\ reports' = [reports EXCEPT ![p] = Tail(@)]
            /\ cur' = [cur EXCEPT ![p] = Head(reports[p])]
            /\ fixResult' = [fixResult EXCEPT ![p] = "running"]
    /\ writes' = [writes EXCEPT ![p] = << >>]
    /\ postResult' = [postResult EXCEPT ![p] = "none"]
    /\ UNCHANGED <<tableVars, listing, timers, child, pushed, world, lockFile,
                   ledger, scan, lockPath, existingPid, lockResult, handlers,
                   isShuttingDown, dbOpen, exitCode, opened, writers, elapsed>>

\* pollCycle: head of "for (const report of reports)"; the loop ends when
\* no report is left or, by the break, when shutdown was requested
ForReports(p) ==
    /\ pc[p] = "for_reports"
    /\ IF reports[p] = << >> \/ isShuttingDown[p]
       THEN /\ pc' = [pc EXCEPT ![p] = "cycle_end"]
            /\ reports' = [reports EXCEPT ![p] = << >>]
            /\ cur' = [cur EXCEPT ![p] = NoReport]
            /\ fixResult' = [fixResult EXCEPT ![p] = "none"]
       ELSE /\ pc' = [pc EXCEPT ![p] = "fixing"]
            /\ reports' = [reports EXCEPT ![p] = Tail(@)]
            /\ cur' = [cur EXCEPT ![p] = Head(reports[p])]
            /\ fixResult' = [fixResult EXCEPT ![p] = "running"]
    /\ writes' = [writes EXCEPT ![p] = << >>]
    /\ postResult' = [postResult EXCEPT ![p] = "none"]
    /\ UNCHANGED <<tableVars, listing, timers, child, pushed, world, lockFile,
                   ledger, scan, lockPath, existingPid, lockResult, handlers,
                   isShuttingDown, dbOpen, exitCode, opened, writers, elapsed>>

\* the entries processReport hands to recordProcessedBugs
ReportEntries(report) ==
    LedgerEntries(report.bugs, report.pr.repo, report.pr.number)

WriteLog(report, outcome) ==
    [bugs |-> Range(MapBugIds(report.bugs)), outcome |-> outcome]

\* variant: a run without changes is recorded like a failure
OutcomeOf_noChangeFailed(r) ==
    CASE r = "commit" -> SHA
      [] r = "nochange" -> FAILED
      [] r = "throw" -> FAILED

\* the outcome processReport records for a result of the Fix Executor
OutcomeOf(r) ==
    CASE r = "commit" -> SHA
      [] r = "nochange" -> NULL
      [] r = "throw" -> FAILED

\* variant: a throw of the Fix Executor is recorded and ends the for loop
FixReturn_throwAborts(p) ==
    /\ pc[p] = "fixing"
    /\ \E r \in {"commit", "nochange", "throw"} :
          /\ fixResult' = [fixResult EXCEPT ![p] = r]
          /\ pushed' = IF r = "commit"
                       THEN pushed \cup Range(MapBugIds(cur[p].bugs))
                       ELSE pushed
          /\ IF r = "commit"
             THEN /\ pc' = [pc EXCEPT ![p] = "posting"]
                  /\ UNCHANGED <<ledger, writes, writers, reports>>
             ELSE LET outcome == OutcomeOf(r) IN
                  /\ pc' = [pc EXCEPT ![p] = "for_reports"]
                  /\ reports' = [reports EXCEPT ![p] =
                                     IF r = "throw" THEN << >> ELSE @]
                  /\ ledger' = recordProcessedBugs(ledger,
                                   ReportEntries(cur[p]), outcome)
                  /\ writes' = [writes EXCEPT ![p] =
                                   @ \o << WriteLog(cur[p], outcome) >>]
                  /\ writers' = writers \cup {p}
    /\ UNCHANGED <<tableVars, listing, timers, child, postResult, world,
                   lockFile, scan, lockPath, existingPid, lockResult,
                   handlers, isShuttingDown, dbOpen, cur, exitCode, opened,
                   elapsed>>

\* variant: the commit is recorded as soon as the Fix Executor returns it
FixReturn_recordsAtCommit(p) ==
    /\ pc[p] = "fixing"
    /\ \E r \in {"commit", "nochange", "throw"} :
          LET outcome == OutcomeOf(r) IN
          /\ fixResult' = [fixResult EXCEPT ![p] = r]
          /\ pushed' = IF r = "commit"
                       THEN pushed \cup Range(MapBugIds(cur[p].bugs))
                       ELSE pushed
          /\ pc' = [pc EXCEPT ![p] =
                       IF r = "commit" THEN "posting" ELSE "for_reports"]
          /\ ledger' = recordProcessedBugs(ledger, ReportEntries(cur[p]),
                                           outcome)
          /\ writes' = [writes EXCEPT ![p] = @ \o << WriteLog(cur[p], outcome) >>]
          /\ writers' = writers \cup {p}
    /\ UNCHANGED <<tableVars, listing, timers, child, postResult, world,
                   lockFile, scan, lockPath, existingPid, lockResult,
                   handlers, isShuttingDown, dbOpen, reports, cur, exitCode,
                   opened, elapsed>>

\* processReport: fixBugsOnPrBranch settles.  Null is recorded as null and a
\* throw as FAILED at once; a commit leads to postFixComment first.
FixReturn(p) ==
    /\ pc[p] = "fixing"
    /\ \E r \in {"commit", "nochange", "throw"} :
          /\ fixResult' = [fixResult EXCEPT ![p] = r]
          /\ pushed' = IF r = "commit"
                       THEN pushed \cup Range(MapBugIds(cur[p].bugs))
                       ELSE pushed
          /\ IF r = "commit"
             THEN /\ pc' = [pc EXCEPT ![p] = "posting"]
                  /\ UNCHANGED <<ledger, writes, writers>>
             ELSE LET outcome == OutcomeOf(r) IN
                  /\ pc' = [pc EXCEPT ![p] = "for_reports"]
                  /\ ledger' = recordProcessedBugs(ledger,
                                   ReportEntries(cur[p]), outcome)
                  /\ writes' = [writes EXCEPT ![p] =
                                   @ \o << WriteLog(cur[p], outcome) >>]
                  /\ writers' = writers \cup {p}
    /\ UNCHANGED <<tableVars, listing, timers, child, postResult, world,
                   lockFile, scan, lockPath, existingPid, lockResult,
                   handlers, isShuttingDown, dbOpen, reports, cur, exitCode,
                   opened, elapsed>>

\* variant: a failed summary comment makes the report count as failed
PostFixComment_failRecordsFailed(p) ==
    /\ pc[p] = "posting"
    /\ \E posted \in {"ok", "failed"} :
          LET outcome == IF posted = "ok" THEN OutcomeOf(fixResult[p])
                         ELSE FAILED IN
          /\ postResult' = [postResult EXCEPT ![p] = posted]
          /\ ledger' = recordProcessedBugs(ledger, ReportEntries(cur[p]),
                                           outcome)
          /\ writes' = [writes EXCEPT ![p] =
                           @ \o << WriteLog(cur[p], outcome) >>]
    /\ writers' = writers \cup {p}
    /\ pc' = [pc EXCEPT ![p] = "for_reports"]
    /\ UNCHANGED <<tableVars, listing, timers, child, pushed, world, lockFile,
                   scan, lockPath, existingPid, lockResult, handlers,
                   isShuttingDown, dbOpen, reports, cur, fixResult, exitCode,
                   opened, elapsed>>

\* processReport: postFixComment settles, the comment created or the failure
\* caught and logged inside postFixComment, then the commit is recorded
PostFixComment(p) ==
    /\ pc[p] = "posting"
    /\ \E posted \in {"ok", "failed"} :
          postResult' = [postResult EXCEPT ![p] = posted]
    /\ ledger' = recordProcessedBugs(ledger, ReportEntries(cur[p]),
                                     OutcomeOf(fixResult[p]))
    /\ writes' = [writes EXCEPT ![p] =
                     @ \o << WriteLog(cur[p], OutcomeOf(fixResult[p])) >>]
    /\ writers' = writers \cup {p}
    /\ pc' = [pc EXCEPT ![p] = "for_reports"]
    /\ UNCHANGED <<tableVars, listing, timers, child, pushed, world, lockFile,
                   scan, lockPath, existingPid, lockResult, handlers,
                   isShuttingDown, dbOpen, reports, cur, fixResult, exitCode,
                   opened, elapsed>>

\* run(): after the cycle, sleep(pollInterval * 1000) unless shutdown was
\* requested; sleep() sets its timeout and its 1000 ms shutdown check
CycleEnd(p) ==
    /\ pc[p] = "cycle_end"
    /\ pc' = [pc EXCEPT ![p] = IF isShuttingDown[p] THEN "loop" ELSE "sleeping"]
    /\ elapsed' = [elapsed EXCEPT ![p] = 0]
    /\ UNCHANGED <<tableVars, listing, timers, child, pushed, postResult,
                   world, lockFile, ledger, scan, lockPath, existingPid,
                   lockResult, handlers, isShuttingDown, dbOpen, reports, cur,
                   fixResult, writes, exitCode, opened, writers>>

\* variant: the shutdown check does not end the sleep
SleepTick_ignoreFlag(p) ==
    /\ pc[p] = "sleeping"
    /\ elapsed[p] + 1 < pollInterval
    /\ elapsed' = [elapsed EXCEPT ![p] = @ + 1]
    /\ UNCHANGED <<tableVars, listing, timers, child, pushed, postResult,
                   world, lockFile, ledger, scan, pc, lockPath, existingPid,
                   lockResult, handlers, isShuttingDown, dbOpen, reports, cur,
                   fixResult, writes, exitCode, opened, writers>>

\* sleep(): a second passes; the timeout is not due and the shutdown check
\* finds the flag unset
SleepTick(p) ==
    /\ pc[p] = "sleeping"
    /\ elapsed[p] + 1 < pollInterval
    /\ ~isShuttingDown[p]
    /\ elapsed' = [elapsed EXCEPT ![p] = @ + 1]
    /\ UNCHANGED <<tableVars, listing, timers, child, pushed, postResult,
                   world, lockFile, ledger, scan, pc, lockPath, existingPid,
                   lockResult, handlers, isShuttingDown, dbOpen, reports, cur,
                   fixResult, writes, exitCode, opened, writers>>

\* sleep(): a second passes and the promise resolves, by the timeout being
\* due or by the shutdown check finding the flag set
Wake(p) ==
    /\ pc[p] = "sleeping"
    /\ elapsed[p] + 1 = pollInterval \/ isShuttingDown[p]
    /\ elapsed' = [elapsed EXCEPT ![p] = @ + 1]
    /\ pc' = [pc EXCEPT ![p] = "loop"]
    /\ UNCHANGED <<tableVars, listing, timers, child, pushed, postResult,
                   world, lockFile, ledger, scan, lockPath, existingPid,
                   lockResult, handlers, isShuttingDown, dbOpen, reports, cur,
                   fixResult, writes, exitCode, opened, writers>>

\* variant: after closing the ledger the daemon enters the loop again
Shutdown_backToLoop(p) ==
    /\ pc[p] = "shutdown"
    /\ dbOpen' = [dbOpen EXCEPT ![p] = FALSE]
    /\ \E again \in BOOLEAN :
          pc' = [pc EXCEPT ![p] = IF again THEN "poll" ELSE "finally"]
    /\ UNCHANGED <<tableVars, listing, timers, child, pushed, postResult,
                   world, lockFile, ledger, scan, lockPath, existingPid,
                   lockResult, handlers, isShuttingDown, reports, cur,
                   fixResult, writes, exitCode, opened, writers, elapsed>>

\* run(): this.shutdown() closes the ledger
Shutdown(p) ==
    /\ pc[p] = "shutdown"
    /\ dbOpen' = [dbOpen EXCEPT ![p] = FALSE]
    /\ pc' = [pc EXCEPT ![p] = "finally"]
    /\ UNCHANGED <<tableVars, listing, timers, child, pushed, postResult,
                   world, lockFile, ledger, scan, lockPath, existingPid,
                   lockResult, handlers, isShuttingDown, reports, cur,
                   fixResult, writes, exitCode, opened, writers, elapsed>>

\* main's finally block: release the lock; the process ends with code 0
Finally(p) ==
    /\ pc[p] = "finally"
    /\ lockFile' = IF lockPath[p] THEN releaseLock(lockFile) ELSE lockFile
    /\ exitCode' = [exitCode EXCEPT ![p] = 0]
    /\ pc' = [pc EXCEPT ![p] = "exited"]
    /\ UNCHANGED <<tableVars, listing, timers, child, pushed, postResult,
                   world, ledger, scan, lockPath, existingPid, lockResult,
                   handlers, isShuttingDown, dbOpen, reports, cur, fixResult,
                   writes, opened, writers, elapsed>>

\* ------------------------------------------------------------------------
\* Failing ledger operations
\* ------------------------------------------------------------------------

\* variant: an exception of the cycle ends the daemon
ComputeSinceThrows_fatal(p) ==
    /\ pc[p] = "poll"
    /\ dbOpen[p]
    /\ pc' = [pc EXCEPT ![p] = "fatal"]
    /\ UNCHANGED <<tableVars, listing, timers, child, pushed, world, lockFile,
                   ledger, scan, procVars, opened, writers>>

\* computeSince(): the ledger read throws; nothing in discoverUnprocessedBugs
\* or pollCycle catches it, run() logs it and goes on to the sleep
ComputeSinceThrows(p) ==
    /\ pc[p] = "poll"
    /\ dbOpen[p]
    /\ pc' = [pc EXCEPT ![p] = "cycle_end"]
    /\ UNCHANGED <<tableVars, listing, timers, child, pushed, world, lockFile,
                   ledger, scan, procVars, opened, writers>>

\* processReport: a recordProcessedBugs call throws and is rolled back.  In
\* the try block the catch block then records FAILED; when that write throws
\* too (for a throw of the Fix Executor it is the first write), the exception
\* leaves processReport and pollCycle (fixResult "escaped") and the other
\* reports are dropped
RecordThrows(p) ==
    /\ pc[p] \in {"fixing", "posting"}
    /\ \E r \in IF pc[p] = "posting" THEN {"commit"} ELSE {"nochange", "throw"},
          catchWrites \in BOOLEAN :
          IF r # "throw" /\ catchWrites
          THEN /\ fixResult' = [fixResult EXCEPT ![p] = r]
               /\ ledger' = recordProcessedBugs(ledger,
                                ReportEntries(cur[p]), FAILED)
               /\ writes' = [writes EXCEPT ![p] =
                                @ \o << WriteLog(cur[p], FAILED) >>]
               /\ writers' = writers \cup {p}
               /\ pc' = [pc EXCEPT ![p] = "for_reports"]
               /\ \E posted \in IF pc[p] = "posting" THEN {"ok", "failed"}
                                 ELSE {"none"} :
                     postResult' = [postResult EXCEPT ![p] = posted]
               /\ UNCHANGED <<reports, cur>>
          ELSE /\ fixResult' = [fixResult EXCEPT ![p] = "escaped"]
               /\ pc' = [pc EXCEPT ![p] = "cycle_end"]
               /\ reports' = [reports EXCEPT ![p] = << >>]
               /\ cur' = [cur EXCEPT ![p] = NoReport]
               /\ writes' = [writes EXCEPT ![p] = << >>]
               /\ postResult' = [postResult EXCEPT ![p] = "none"]
               /\ UNCHANGED <<ledger, writers>>
    /\ UNCHANGED <<tableVars, listing, timers, child, pushed, world, lockFile,
                   scan, lockPath, existingPid, lockResult, handlers,
                   isShuttingDown, dbOpen, exitCode, opened, elapsed>>

\* ------------------------------------------------------------------------
\* The ledger on its own: recordProcessedBugs calls with any arguments
\* ------------------------------------------------------------------------

\* the entries a call may name: b1 on either PR, b2 on PR 1
Entries ==
    {[bugId |-> "b1", repo |-> "o/r1", prNumber |-> 1],
     [bugId |-> "b1", repo |-> "o/r2", prNumber |-> 2],
     [bugId |-> "b2", repo |-> "o/r1", prNumber |-> 1]}

\* the outcomes a call may record
CallOutcomes == {SHA, NULL, FAILED}

\* the lists of at most MaxEntries entries
EntryLists == UNION {[1..n -> Entries] : n \in 0..MaxEntries}

\* recordProcessedBugs(bugs, fixCommitSha) is called: new Date() is read
\* once and the transaction begins; failAt is the insert that will throw
RecordBegin ==
    /\ ~call.running
    /\ \E bugs \in EntryLists, fixCommitSha \in CallOutcomes,
          now \in NowValues :
       \E failAt \in 0..Len(bugs) :
          call' = [bugs |-> bugs, now |-> now, fixCommitSha |-> fixCommitSha,
                   failAt |-> failAt, running |-> TRUE, ok |-> TRUE,
                   replaced |-> {}]
    /\ UNCHANGED <<table, listing, timers, child, pushed, world, lockFile,
                   ledger, scan, pc, procVars, opened, writers>>

\* the transaction commits or rolls back and the call returns or throws;
\* the daemon's view of the table follows
RecordEnd ==
    /\ call.running
    /\ \E r \in {transaction(table, call.bugs, call.now, call.fixCommitSha,
                              call.failAt)} :
          /\ table' = r.rows
          /\ call' = [NoCall EXCEPT
                         !.fixCommitSha = call.fixCommitSha,
                         !.failAt = call.failAt,
                         !.ok = r.ok,
                         !.replaced =
                            {x.fix_commit_sha : x \in {y \in table :
                                r.ok /\ \E i \in 1..Len(call.bugs) :
                                           call.bugs[i].bugId = y.bug_id}}]
          /\ ledger' = IF r.ok
                       THEN recordProcessedBugs(ledger, call.bugs,
                                                call.fixCommitSha)
                       ELSE ledger
    /\ UNCHANGED <<listing, timers, child, pushed, world, lockFile, scan,
                   pc, procVars, opened, writers>>

\* ------------------------------------------------------------------------
\* The monitored repository set on its own: any configuration
\* ------------------------------------------------------------------------

\* entries AUTOFIX_GITHUB_REPOS may hold, after split("/"): two repositories,
\* one of them also owned by organization "o", and two malformed entries
RepoSpecs == {<<"o", "r1">>, <<"q", "r4">>, <<"solo">>, <<"o", "">>}

\* organizations AUTOFIX_GITHUB_ORGS may name
OrgNames == {"o", "p"}

\* the lists of at most MaxSpecs elements of a set
ListsOf(S) == UNION {[1..n -> S] : n \in 0..MaxSpecs}

\* the configurations loadConfig accepts (a repository or an organization is
\* named), each with the listOwnerRepos call that throws, if any
ListingInputs ==
    {l \in [specs : ListsOf(RepoSpecs), orgs : ListsOf(OrgNames),
            err : {NoErr} \cup {ErrCall("listOwnerRepos", o, 0) :
                                   o \in OrgNames},
            repos : {<< >>}, calls : {<< >>}, done : {FALSE}] :
        l.specs # << >> \/ l.orgs # << >>}

\* getAllMonitoredRepos() runs under the configuration
ListRepos ==
    /\ ~listing.done
    /\ \E res \in {OrgRepos(listing.orgs,
                         [now |-> 0, open |-> {}, resolved |-> {},
                          err |-> listing.err],
                         ExplicitRepos(listing.specs,
                             [repos |-> << >>, seen |-> {},
                              calls |-> << >>]))} :
          listing' = [listing EXCEPT !.repos = res.repos,
                                     !.calls = res.calls, !.done = TRUE]
    /\ UNCHANGED <<tableVars, timers, child, pushed, world, lockFile, ledger,
                   scan, pc, procVars, opened, writers>>

\* ------------------------------------------------------------------------
\* fixGenerator.ts: one runClaudeFix() call on its own
\* ------------------------------------------------------------------------

\* stdout keeps at most this many characters, the newest
MAX_STDOUT_SIZE == 4

\* runClaudeFix: spawn("claude", args) and setTimeout(..., CLAUDE_TIMEOUT_MS);
\* the spawn may fail, which is reported by an "error" event
RunClaudeFix ==
    /\ child.state = "none"
    /\ \E spawned \in BOOLEAN :
          child' = [NoChild EXCEPT
                       !.state = IF spawned THEN "running" ELSE "failed",
                       !.killTimer = "pending"]
    /\ UNCHANGED <<tableVars, listing, timers, pushed, world, lockFile,
                   ledger, scan, pc, procVars, opened, writers>>

\* child.stdout.on("data"): the chunk is appended and the head cut off
ChildData ==
    /\ child.state = "running"
    /\ \E chunk \in 1..MaxChunk :
          child' = [child EXCEPT !.stdout =
                       IF @ + chunk > MAX_STDOUT_SIZE THEN MAX_STDOUT_SIZE
                       ELSE @ + chunk]
    /\ UNCHANGED <<tableVars, listing, timers, pushed, world, lockFile,
                   ledger, scan, pc, procVars, opened, writers>>

\* clearTimeout(killTimer)
clearTimeout(timer) == IF timer = "pending" THEN "cleared" ELSE timer

\* child.on("error"): the promise is rejected unless it is settled
ChildError ==
    /\ child.state = "failed"
    /\ child' = IF child.settled
                THEN [child EXCEPT !.state = "errored",
                                   !.killTimer = clearTimeout(@)]
                ELSE [child EXCEPT !.state = "errored",
                                   !.killTimer = clearTimeout(@),
                                   !.settled = TRUE,
                                   !.promise = "rejected",
                                   !.settles = @ + 1]
    /\ UNCHANGED <<tableVars, listing, timers, pushed, world, lockFile,
                   ledger, scan, pc, procVars, opened, writers>>

\* the (code, signal) pairs a "close" event may carry: the tool exits by
\* itself with code 0 or 1, or it is ended by the SIGTERM the daemon sent or
\* by a signal from elsewhere (SIGINT); after a failed spawn the code is -2
CloseEvents(c) ==
    IF c.state = "errored" THEN {[code |-> -2, signal |-> "none"]}
    ELSE {[code |-> 0, signal |-> "none"], [code |-> 1, signal |-> "none"],
          [code |-> -1, signal |-> "SIGINT"]}
         \cup {[code |-> -1, signal |-> sig] : sig \in c.sent \ {"SIGKILL"}}

\* child.on("close", (code, signal)): reject on SIGTERM or SIGKILL and on a
\* code other than 0, resolve(stdout) otherwise, unless settled
OnClose(c, ev) ==
    LET c1 == [c EXCEPT !.state = "closed", !.killTimer = clearTimeout(@),
                        !.code = ev.code, !.signal = ev.signal]
    IN IF c.settled THEN c1
       ELSE IF ev.signal \in {"SIGTERM", "SIGKILL"} \/ ev.code # 0
       THEN [c1 EXCEPT !.settled = TRUE, !.promise = "rejected",
                       !.settles = @ + 1]
       ELSE [c1 EXCEPT !.settled = TRUE, !.promise = "resolved",
                       !.settles = @ + 1, !.value = c.stdout]

\* the child and its pipes close
ChildClose ==
    /\ child.state \in {"running", "errored"}
    /\ \E ev \in CloseEvents(child) : child' = OnClose(child, ev)
    /\ UNCHANGED <<tableVars, listing, timers, pushed, world, lockFile,
                   ledger, scan, pc, procVars, opened, writers>>

\* a child that was sent SIGKILL is ended by it
ChildKilled ==
    /\ child.state = "running"
    /\ "SIGKILL" \in child.sent
    /\ child' = OnClose(child, [code |-> -1, signal |-> "SIGKILL"])
    /\ UNCHANGED <<tableVars, listing, timers, pushed, world, lockFile,
                   ledger, scan, pc, procVars, opened, writers>>

\* killTimer fires after CLAUDE_TIMEOUT_MS: child.kill("SIGTERM") and the
\* SIGKILL_GRACE_MS timer, unless settled
TimeoutFires ==
    /\ child.state = "running"
    /\ child.killTimer = "pending"
    /\ child' = IF child.settled THEN [child EXCEPT !.killTimer = "fired"]
                ELSE [child EXCEPT !.killTimer = "fired",
                                   !.sent = @ \cup {"SIGTERM"},
                                   !.graceTimer = "pending",
                                   !.late = TRUE]
    /\ UNCHANGED <<tableVars, listing, timers, pushed, world, lockFile,
                   ledger, scan, pc, procVars, opened, writers>>

\* the grace timer fires (it is never cleared): child.kill("SIGKILL")
\* unless settled
GraceFires ==
    /\ child.graceTimer = "pending"
    /\ child' = IF child.settled THEN [child EXCEPT !.graceTimer = "fired"]
                ELSE [child EXCEPT !.graceTimer = "fired",
                                   !.sent = @ \cup {"SIGKILL"}]
    /\ UNCHANGED <<tableVars, listing, timers, pushed, world, lockFile,
                   ledger, scan, pc, procVars, opened, writers>>

\* fixBugsOnPrBranch after "await runClaudeFix": a rejection is rethrown; a
\* resolved run with no edits returns null, one with edits is committed and
\* pushed, which may throw
AwaitClaudeFix ==
    /\ child.promise # "pending"
    /\ child.result = "none"
    /\ \E r \in IF child.promise = "rejected" THEN {"throw"}
                 ELSE {"commit", "nochange", "throw"} :
          child' = [child EXCEPT !.result = r]
    /\ UNCHANGED <<tableVars, listing, timers, pushed, world, lockFile,
                   ledger, scan, pc, procVars, opened, writers>>

\* ------------------------------------------------------------------------
\* main.ts: sleep() on its own
\* ------------------------------------------------------------------------

\* run(): await this.sleep(pollInterval * 1000), called when the flag is not
\* set and the sleep before it has returned; setTimeout and setInterval
SleepCall ==
    /\ ~timers.flag
    /\ Len(timers.sleeps) < MaxSleeps
    /\ \A k \in 1..Len(timers.sleeps) : timers.sleeps[k].resolved
    /\ timers' = [timers EXCEPT !.sleeps =
                      @ \o << [timeout |-> "pending", interval |-> "pending",
                               waited |-> 0, resolved |-> FALSE] >>]
    /\ UNCHANGED <<tableVars, listing, child, pushed, world, lockFile,
                   ledger, scan, pc, procVars, opened, writers>>

\* the setInterval callback of a sleep() call runs, a second after the last
\* run: with the flag set it clears both timers and resolves; the seconds
\* are counted while the timeout is pending
CheckShutdown(k) ==
    /\ k \in 1..Len(timers.sleeps)
    /\ timers.sleeps[k].interval = "pending"
    /\ timers.sleeps[k].timeout = "pending" =>
           timers.sleeps[k].waited < pollInterval
    /\ timers' = IF timers.flag
                 THEN [timers EXCEPT !.sleeps[k].timeout = clearTimeout(@),
                                     !.sleeps[k].interval = "cleared",
                                     !.sleeps[k].resolved = TRUE]
                 ELSE IF timers.sleeps[k].timeout = "pending"
                 THEN [timers EXCEPT !.sleeps[k].waited = @ + 1]
                 ELSE timers
    /\ UNCHANGED <<tableVars, listing, child, pushed, world, lockFile,
                   ledger, scan, pc, procVars, opened, writers>>

\* the setTimeout callback of a sleep() call runs after pollInterval
\* seconds, before or after the check of that second: resolve
SleepTimeout(k) ==
    /\ k \in 1..Len(timers.sleeps)
    /\ timers.sleeps[k].timeout = "pending"
    /\ timers.sleeps[k].waited >= pollInterval - 1
    /\ timers' = [timers EXCEPT !.sleeps[k].timeout = "fired",
                                !.sleeps[k].resolved = TRUE]
    /\ UNCHANGED <<tableVars, listing, child, pushed, world, lockFile,
                   ledger, scan, pc, procVars, opened, writers>>

\* the SIGINT/SIGTERM handler sets the flag
SleepSignal ==
    /\ ~timers.flag
    /\ timers' = [timers EXCEPT !.flag = TRUE]
    /\ UNCHANGED <<tableVars, listing, child, pushed, world, lockFile,
                   ledger, scan, pc, procVars, opened, writers>>

\* ------------------------------------------------------------------------
\* Signals
\* ------------------------------------------------------------------------

\* the status the shell sees for a process ended by a signal (128 + signal)
SignalStatus(signal) == 128 + signal

\* variant: the signal handler abandons the report that is being fixed
Terminate_abortsFix(p) ==
    /\ Alive(p)
    /\ ~isShuttingDown[p]
    /\ IF handlers[p]
       THEN /\ isShuttingDown' = [isShuttingDown EXCEPT ![p] = TRUE]
            /\ pc' = [pc EXCEPT ![p] =
                         IF @ \in {"fixing", "posting"} THEN "cycle_end"
                         ELSE @]
            /\ UNCHANGED <<scan, reports, cur, fixResult, writes, exitCode>>
       ELSE /\ pc' = [pc EXCEPT ![p] = "killed"]
            /\ exitCode' = [exitCode EXCEPT ![p] = SignalStatus(15)]
            /\ UNCHANGED <<isShuttingDown, scan, reports, cur, fixResult,
                           writes>>
    /\ UNCHANGED <<tableVars, listing, timers, child, pushed, postResult,
                   world, lockFile, ledger, lockPath, existingPid,
                   lockResult, handlers, dbOpen, opened, writers, elapsed>>

\* SIGINT or SIGTERM: the handler sets the flag; before the handlers are
\* registered the default action ends the process, which runs no finally
\* block
Terminate(p) ==
    /\ Alive(p)
    /\ ~isShuttingDown[p]
    /\ IF handlers[p]
       THEN /\ isShuttingDown' = [isShuttingDown EXCEPT ![p] = TRUE]
            /\ UNCHANGED <<pc, scan, reports, cur, fixResult, writes,
                           exitCode>>
       ELSE /\ pc' = [pc EXCEPT ![p] = "killed"]
            /\ exitCode' = [exitCode EXCEPT ![p] = SignalStatus(15)]
            /\ UNCHANGED <<isShuttingDown, scan, reports, cur, fixResult,
                           writes>>
    /\ UNCHANGED <<tableVars, listing, timers, child, pushed, postResult,
                   world, lockFile, ledger, lockPath, existingPid, lockResult,
                   handlers, dbOpen, opened, writers, elapsed>>

\* SIGKILL, power loss: the process ends at once and its memory is gone
Crash(p) ==
    /\ Alive(p)
    /\ pc' = [pc EXCEPT ![p] = "killed"]
    /\ scan' = [scan EXCEPT ![p] = NoScan]
    /\ reports' = [reports EXCEPT ![p] = << >>]
    /\ cur' = [cur EXCEPT ![p] = NoReport]
    /\ fixResult' = [fixResult EXCEPT ![p] = "none"]
    /\ writes' = [writes EXCEPT ![p] = << >>]
    /\ isShuttingDown' = [isShuttingDown EXCEPT ![p] = FALSE]
    /\ elapsed' = [elapsed EXCEPT ![p] = 0]
    /\ postResult' = [postResult EXCEPT ![p] = "none"]
    /\ exitCode' = [exitCode EXCEPT ![p] = SignalStatus(9)]
    /\ UNCHANGED <<tableVars, listing, timers, child, pushed, world, lockFile,
                   ledger, lockPath, existingPid, lockResult, handlers,
                   dbOpen, opened, writers>>

\* ------------------------------------------------------------------------
\* Specifications
\* ------------------------------------------------------------------------

Step(p) ==
    \/ Start(p)
    \/ LoadConfig(p)
    \/ LockCreate(p)
    \/ LockWritePid(p)
    \/ LockRead(p)
    \/ LockProbe(p)
    \/ LockUnlink(p)
    \/ LockRecreate(p)
    \/ LockRewritePid(p)
    \/ Construct(p)
    \/ Initialize(p)
    \/ Fatal(p)
    \/ RegisterHandlers(p)
    \/ LoopCheck(p)
    \/ DiscoverBegin(p)
    \/ DiscoverScanRepo(p)
    \/ DiscoverReturn(p)
    \/ CheckReports(p)
    \/ ForReports(p)
    \/ FixReturn(p)
    \/ PostFixComment(p)
    \/ CycleEnd(p)
    \/ SleepTick(p)
    \/ Wake(p)
    \/ Shutdown(p)
    \/ Finally(p)
    \/ Terminate(p)
    \/ Crash(p)

\* one daemon process on the full remote
Next == Step(1)

Spec == Init /\ [][Next]_vars

\* start-up, lock and exit of all processes; a process that has entered the
\* polling loop stays in it until it is told to stop or dies
LockStep(p) ==
    \/ Start(p)
    \/ LoadConfig(p)
    \/ LockCreate(p)
    \/ LockWritePid(p)
    \/ LockRead(p)
    \/ LockProbe(p)
    \/ LockUnlink(p)
    \/ LockRecreate(p)
    \/ LockRewritePid(p)
    \/ Construct(p)
    \/ Initialize(p)
    \/ Fatal(p)
    \/ RegisterHandlers(p)
    \/ LoopCheck(p)
    \/ Shutdown(p)
    \/ Finally(p)
    \/ Terminate(p)
    \/ Crash(p)

\* a full daemon (process 1) and a second instance that is started and,
\* if it gets the lock, idles in the polling loop (process 2), on the small
\* remote
InitMulti == InitWith(SmallWorld)

NextMulti == Step(1) \/ LockStep(2)

SpecMulti == InitMulti /\ [][NextMulti]_vars

InitLock == InitWith(<< >>)

NextLock == \E p \in Procs : LockStep(p)

SpecLock == InitLock /\ [][NextLock]_vars

\* one daemon process on the remote with a repeated bugId
InitDup == InitWith(DupWorld)

SpecDup == InitDup /\ [][Next]_vars

\* one daemon process whose ledger reads and writes may throw
NextDb == Step(1) \/ ComputeSinceThrows(1) \/ RecordThrows(1)

SpecDb == Init /\ [][NextDb]_vars

\* the ledger alone
InitLedger == InitWith(<< >>) /\ lockFile = NoFile

NextLedger == RecordBegin \/ RecordEnd

SpecLedger == InitLedger /\ [][NextLedger]_vars

\* getAllMonitoredRepos alone
InitRepos ==
    /\ InitState(<< >>)
    /\ lockFile = NoFile
    /\ listing \in ListingInputs

NextRepos == ListRepos

SpecRepos == InitRepos /\ [][NextRepos]_vars

\* runClaudeFix alone; timers fire, a reported spawn error is delivered and
\* SIGKILL ends the child
InitFix == InitWith(<< >>) /\ lockFile = NoFile

NextFix ==
    \/ RunClaudeFix
    \/ ChildData
    \/ ChildError
    \/ ChildClose
    \/ ChildKilled
    \/ TimeoutFires
    \/ GraceFires
    \/ AwaitClaudeFix

SpecFix ==
    /\ InitFix
    /\ [][NextFix]_vars
    /\ WF_vars(ChildError)
    /\ WF_vars(AwaitClaudeFix)
    /\ WF_vars(ChildKilled)
    /\ WF_vars(TimeoutFires)
    /\ WF_vars(GraceFires)

\* sleep() alone, called cycle after cycle
InitSleep == InitWith(<< >>) /\ lockFile = NoFile

NextSleep ==
    \/ SleepCall
    \/ \E k \in 1..MaxSleeps : CheckShutdown(k)
    \/ \E k \in 1..MaxSleeps : SleepTimeout(k)
    \/ SleepSignal

SpecSleep == InitSleep /\ [][NextSleep]_vars

\* a daemon (process 1) and, once it has died or exited, its restart
\* (process 2), on the small remote
NextRestart == Step(1) \/ (pc[1] \in {"killed", "exited"} /\ Step(2))

SpecRestart == InitMulti /\ [][NextRestart]_vars

\* the steps a running process takes by itself: every step but the start
\* by the operator and the signals
Progress(p) ==
    \/ LoadConfig(p)
    \/ LockCreate(p)
    \/ LockWritePid(p)
    \/ LockRead(p)
    \/ LockProbe(p)
    \/ LockUnlink(p)
    \/ LockRecreate(p)
    \/ LockRewritePid(p)
    \/ Construct(p)
    \/ Initialize(p)
    \/ Fatal(p)
    \/ RegisterHandlers(p)
    \/ LoopCheck(p)
    \/ DiscoverBegin(p)
    \/ DiscoverScanRepo(p)
    \/ DiscoverReturn(p)
    \/ CheckReports(p)
    \/ ForReports(p)
    \/ FixReturn(p)
    \/ PostFixComment(p)
    \/ CycleEnd(p)
    \/ SleepTick(p)
    \/ Wake(p)
    \/ Shutdown(p)
    \/ Finally(p)

\* one daemon process on the small remote; the event loop keeps running the
\* process, remote calls and the Fix Executor settle, timers fire
SpecLive == InitMulti /\ [][Next]_vars /\ WF_vars(Progress(1))

\* ------------------------------------------------------------------------
\* Properties
\* ------------------------------------------------------------------------

\* a ledger row with a commit, null or a terminal skip outcome
NonFailed(row) ==
    row.outcome \in {SHA, NULL, SKIPPED_PR_CLOSED, SKIPPED_RESOLVED}

ReportBugIds(rs) == UNION {Range(MapBugIds(rs[i].bugs)) : i \in 1..Len(rs)}

ReportsOfPr(rs, repo, prNumber) ==
    {i \in 1..Len(rs) : rs[i].pr.repo = repo /\ rs[i].pr.number = prNumber}

Calls(p) == Range(scan[p].calls)

InDiscovery(p) == pc[p] \in {"scanning", "polled"}

\* ids of the comments the scan of a repository fetched
ListedIds(p, repo) ==
    UNION {e.ids : e \in {x \in Calls(p) :
              x.op = "listRepoBugbotComments" /\ x.repo = repo /\ x.ok}}

\* the fetched bug comments of a PR whose bug had no non-FAILED row when the
\* discovery call started
CandidatesOf(p, repo, prNumber) ==
    {c \in Range(world) :
        /\ c.repo = repo /\ c.pr = prNumber /\ c.id \in ListedIds(p, repo)
        /\ c.userLogin = BOT_LOGIN /\ c.bugId # ""
        /\ ~NonFailed(scan[p].pre[c.bugId])}

PrCalls(p, repo, prNumber) ==
    {e \in Calls(p) : e.repo = repo /\ e.pr = prNumber}

\* C1: a discovery call never returns a bugId whose ledger row has a
\* non-FAILED outcome (commit, null, SKIPPED_PR_CLOSED, SKIPPED_RESOLVED),
\* neither when the call started nor when it returns.
C1_IdempotentDiscovery ==
    \A p \in Procs :
        /\ \A b \in ReportBugIds(scan[p].result) :
              /\ ~NonFailed(scan[p].pre[b])
              /\ InDiscovery(p) => ~NonFailed(ledger[b])
        /\ pc[p] = "polled" =>
              \A b \in ReportBugIds(reports[p]) : ~NonFailed(ledger[b])

\* b1 has a commit recorded, the remote still returns its comment on an open
\* PR with the thread unresolved, and the call returned b2 but not b1
C1_Witness ==
    /\ pc[1] = "polled"
    /\ scan[1].pre["b1"].outcome = SHA
    /\ 1 \in ListedIds(1, "o/r1")
    /\ \E e \in PrCalls(1, "o/r1", 1) :
          e.op = "getPullRequest" /\ e.ok /\ e.open
    /\ \E e \in PrCalls(1, "o/r1", 1) :
          e.op = "getResolvedCommentIds" /\ e.ok /\ 1 \notin e.ids
    /\ ReportBugIds(reports[1]) = {"b2"}

\* C2: whenever a repository is about to be scanned and a bug of it is
\* recorded FAILED, every response of the remote in which the bug's PR is
\* open, its thread unresolved and no call fails makes the scan return the
\* bug, also when its comment is older than the lookback window.
C2_RetryEligibility ==
    \A p \in Procs :
        (pc[p] = "scanning" /\ scan[p].todo # << >>) =>
            LET repo == Head(scan[p].todo) IN
            \A in \in RepoInputs(world, repo) :
                LET acc == scanRepoForBugs(
                              [ledger |-> ledger, reports |-> scan[p].result,
                               calls |-> scan[p].calls],
                              world, in, repo, scan[p].since)
                IN \A c \in Range(world) :
                      ( /\ c.repo = repo /\ c.bugId # ""
                        /\ scan[p].pre[c.bugId].outcome = FAILED
                        /\ ledger[c.bugId].outcome = FAILED
                        /\ <<repo, c.pr>> \in in.open
                        /\ c.id \notin in.resolved
                        /\ in.err = NoErr )
                      => c.bugId \in ReportBugIds(acc.reports)

\* b2 was recorded FAILED, its comment (created on day 3) is outside the
\* window of the call, and the call returned it
C2_Witness ==
    /\ pc[1] = "polled"
    /\ scan[1].pre["b2"].outcome = FAILED
    /\ scan[1].now - 7 > 3
    /\ "b2" \in ReportBugIds(reports[1])

\* C3: every repository scan of a discovery call is issued with lower bound
\* now - 7 days when the ledger held no FAILED row at the start of the call
\* and with no lower bound when it held one; every monitored repository is
\* scanned.
C3_WindowCorrectness ==
    \A p \in Procs : InDiscovery(p) =>
        /\ \A e \in Calls(p) : e.op = "listRepoBugbotComments" =>
              e.since = IF \E b \in BugIds : scan[p].pre[b].outcome = FAILED
                        THEN {} ELSE {scan[p].now - 7}
        /\ pc[p] = "polled" =>
              /\ \E e \in Calls(p) :
                    e.op = "listRepoBugbotComments" /\ e.repo = "o/r1"
              /\ (\E e \in Calls(p) : e.op = "listOwnerRepos" /\ e.ok) =>
                    \E e \in Calls(p) :
                       e.op = "listRepoBugbotComments" /\ e.repo = "o/r2"

\* a FAILED row exists and both repositories were scanned without lower bound
C3_Witness ==
    /\ pc[1] = "polled"
    /\ \E b \in BugIds : scan[1].pre[b].outcome = FAILED
    /\ \A r \in {"o/r1", "o/r2"} : \E e \in Calls(1) :
          e.op = "listRepoBugbotComments" /\ e.repo = r /\ e.since = {}

\* no FAILED row exists and both repositories were scanned from now - 7 days
C3_WitnessBounded ==
    /\ pc[1] = "polled"
    /\ \A b \in BugIds : scan[1].pre[b].outcome # FAILED
    /\ \A r \in {"o/r1", "o/r2"} : \E e \in Calls(1) :
          e.op = "listRepoBugbotComments" /\ e.repo = r
          /\ e.since = {scan[1].now - 7}

\* C4: for a PR all of whose bot comments lack the marker or carry a bugId
\* with a non-FAILED row, the discovery call makes no getPullRequest call, no
\* getResolvedCommentIds call and no ledger write.
C4_TwoPhaseShortCircuit ==
    \A p \in Procs : InDiscovery(p) =>
        \A c0 \in Range(world) :
            (\A c \in Range(world) :
                (c.repo = c0.repo /\ c.pr = c0.pr /\ c.userLogin = BOT_LOGIN)
                => (c.bugId = "" \/ NonFailed(scan[p].pre[c.bugId])))
            => /\ PrCalls(p, c0.repo, c0.pr) = {}
               /\ \A c \in Range(world) :
                     (c.repo = c0.repo /\ c.pr = c0.pr /\ c.bugId # "")
                     => ledger[c.bugId] = scan[p].pre[c.bugId]

\* the scan fetched both comments of PR 2, b3 is processed and comment 4 has
\* no marker; PR 1 was looked up, PR 2 was not
C4_Witness ==
    /\ pc[1] = "polled"
    /\ {3, 4} \subseteq ListedIds(1, "o/r2")
    /\ NonFailed(scan[1].pre["b3"])
    /\ PrCalls(1, "o/r2", 2) = {}
    /\ PrCalls(1, "o/r1", 1) # {}

\* C5: when getPullRequest reports a PR closed or inaccessible, every
\* candidate bug of the PR is recorded SKIPPED_PR_CLOSED in one write and the
\* PR has no report in the result.
C5_ClosedPrTerminalWrite ==
    \A p \in Procs : InDiscovery(p) =>
        \A e \in Calls(p) :
            (e.op = "getPullRequest" /\ e.ok /\ ~e.open) =>
                LET cands == {c.bugId : c \in CandidatesOf(p, e.repo, e.pr)} IN
                /\ cands # {}
                /\ \A b \in cands :
                      ledger[b] = [outcome |-> SKIPPED_PR_CLOSED,
                                   repo |-> e.repo, prNumber |-> e.pr]
                /\ \E w \in PrCalls(p, e.repo, e.pr) :
                      /\ w.op = "recordProcessedBugs"
                      /\ w.bugs = cands
                      /\ w.outcome = SKIPPED_PR_CLOSED
                /\ ReportsOfPr(scan[p].result, e.repo, e.pr) = {}
                /\ pc[p] = "polled" =>
                      ReportsOfPr(reports[p], e.repo, e.pr) = {}

\* PR 1 was reported closed with b1 and b2 as candidates
C5_Witness ==
    /\ pc[1] = "polled"
    /\ \E e \in PrCalls(1, "o/r1", 1) :
          e.op = "getPullRequest" /\ e.ok /\ ~e.open
    /\ {c.bugId : c \in CandidatesOf(1, "o/r1", 1)} = {"b1", "b2"}
    /\ ledger["b1"].outcome = SKIPPED_PR_CLOSED
    /\ ledger["b2"].outcome = SKIPPED_PR_CLOSED

\* C6: every candidate bug whose comment id is in the PR's resolved set is
\* recorded SKIPPED_RESOLVED and is not returned; the other candidates of
\* the PR are returned in the PR's report and get no ledger write.
C6_ResolvedTerminalWrite ==
    \A p \in Procs : InDiscovery(p) =>
        \A e \in Calls(p) :
            (e.op = "getResolvedCommentIds" /\ e.ok) =>
                \A c \in CandidatesOf(p, e.repo, e.pr) :
                    IF c.id \in e.ids
                    THEN /\ ledger[c.bugId] =
                               [outcome |-> SKIPPED_RESOLVED,
                                repo |-> e.repo, prNumber |-> e.pr]
                         /\ c.bugId \notin ReportBugIds(scan[p].result)
                    ELSE /\ \E i \in ReportsOfPr(scan[p].result, e.repo, e.pr) :
                               c.bugId \in Range(MapBugIds(scan[p].result[i].bugs))
                         /\ ledger[c.bugId] = scan[p].pre[c.bugId]

\* on PR 1 the thread of comment 1 is resolved and that of comment 2 is not:
\* b1 is recorded SKIPPED_RESOLVED and b2 is returned
C6_Witness ==
    /\ pc[1] = "polled"
    /\ \E e \in PrCalls(1, "o/r1", 1) :
          e.op = "getResolvedCommentIds" /\ e.ok /\ e.ids = {1}
    /\ {c.bugId : c \in CandidatesOf(1, "o/r1", 1)} = {"b1", "b2"}
    /\ ledger["b1"].outcome = SKIPPED_RESOLVED
    /\ ReportBugIds(reports[1]) \cap {"b1", "b2"} = {"b2"}

\* C7: a start that finds the lock token naming a live process fails before
\* the ledger is opened: the process never opens or writes the ledger, never
\* holds the lock, never leaves the start-up code and exits with code 1.
C7_LockExclusivity ==
    \A p \in Procs : lockResult[p] = "live" =>
        /\ p \notin opened
        /\ p \notin writers
        /\ ~dbOpen[p]
        /\ ~lockPath[p]
        /\ ~handlers[p]
        /\ pc[p] \in {"fatal", "exited", "killed"}
        /\ pc[p] = "exited" => exitCode[p] = 1

\* process 1 runs, holds the lock and has written the ledger; process 2 was
\* started, found the token naming process 1 and exited with code 1
C7_Witness ==
    /\ lockResult[2] = "live"
    /\ existingPid[2] = {1}
    /\ pc[2] = "exited" /\ exitCode[2] = 1
    /\ Alive(1) /\ lockPath[1] /\ 1 \in writers
    /\ lockFile = [creator |-> 1, content |-> {1}]

C8_WitnessFailed ==
    \E p \in Procs : lockResult[p] = "reclaim_failed" /\ pc[p] = "exited"

\* C9: at any time at most one live process believes it holds the lock.
C9_SingleWriter ==
    Cardinality({p \in Procs : Alive(p) /\ lockPath[p]}) <= 1

BugsOf(report) == Range(MapBugIds(report.bugs))

FailedFetches(calls, repo) ==
    {e \in Range(calls) :
        e.op = "listRepoBugbotComments" /\ e.repo = repo /\ ~e.ok}

\* C12: when the fetch of the comments of one repository fails, the scan of
\* that repository adds no report and writes no ledger row, the reports
\* gathered so far are kept and the scan goes on with the next repository;
\* when discovery returns, every monitored repository has been fetched.
C12_CrossRepositoryIsolation ==
    /\ [][\A p \in Procs :
            (/\ pc[p] = "scanning" /\ pc'[p] = "scanning"
             /\ scan'[p].todo # scan[p].todo
             /\ FailedFetches(scan'[p].calls, Head(scan[p].todo)) # {}) =>
                /\ ledger' = ledger
                /\ scan'[p].result = scan[p].result
                /\ scan'[p].todo = Tail(scan[p].todo)
                /\ Len(scan'[p].calls) = Len(scan[p].calls) + 1
        ]_vars
    /\ [](\A p \in Procs : pc[p] = "polled" =>
            /\ reports[p] = scan[p].result
            /\ \A repo \in {"o/r1"} \cup
                   (IF \E e \in Calls(p) : e.op = "listOwnerRepos" /\ e.ok
                    THEN {"o/r2"} ELSE {}) :
                  \E e \in Calls(p) :
                     e.op = "listRepoBugbotComments" /\ e.repo = repo)

\* the fetch for o/r1 failed and the report of PR 2 of o/r2 is returned
C12_Witness ==
    /\ pc[1] = "polled"
    /\ FailedFetches(scan[1].calls, "o/r1") # {}
    /\ Len(reports[1]) = 1
    /\ reports[1][1].pr = [repo |-> "o/r2", number |-> 2]
    /\ ledger = scan[1].pre

C14_WakesBeforeInterval ==
    [][\A p \in Procs :
          (pc[p] = "sleeping" /\ isShuttingDown[p] /\ pc'[p] = "loop") =>
             elapsed'[p] < pollInterval
      ]_vars

\* C14 as amended: with the shutdown flag set the sleep returns at the next
\* one-second shutdown check, never later than the end of the poll interval
\* (which is when it returns if the flag was set during the last second),
\* and the loop then exits without another cycle.
C14_InterruptibleSleep ==
    [][\A p \in Procs :
          /\ (pc[p] = "sleeping" /\ isShuttingDown[p]
              /\ elapsed'[p] # elapsed[p] /\ pc'[p] # "killed") =>
                /\ pc'[p] = "loop"
                /\ elapsed'[p] = elapsed[p] + 1
                /\ elapsed'[p] <= pollInterval
          /\ (pc[p] = "sleeping" /\ ~isShuttingDown[p] /\ pc'[p] = "loop") =>
                elapsed'[p] = pollInterval
          /\ (pc[p] = "loop" /\ isShuttingDown[p]
              /\ pc'[p] \notin {"loop", "killed"}) => pc'[p] = "shutdown"
      ]_vars

\* the flag was set during the first second of the sleep; the sleep returned
\* at the first shutdown check and the loop went to the shutdown
C14_Witness ==
    /\ pc[1] = "shutdown"
    /\ isShuttingDown[1]
    /\ elapsed[1] = 1
    /\ elapsed[1] < pollInterval

\* C15: an exception that leaves discovery or report processing leaves the
\* daemon running with its ledger connection, lock and handlers; the daemon
\* then sleeps the full interval and starts the next cycle.  A process that
\* has entered the polling loop never takes the fatal exit and leaves the
\* loop only when shutdown was requested.
C15_NoCrashOnFailedCycle ==
    /\ [][\A p \in Procs :
            /\ (pc[p] \in {"poll", "fixing", "posting"}
                /\ pc'[p] = "cycle_end") =>
                  /\ dbOpen'[p] /\ lockPath'[p] /\ handlers'[p]
                  /\ ledger' = ledger /\ lockFile' = lockFile
                  /\ isShuttingDown'[p] = isShuttingDown[p]
            /\ (pc[p] = "cycle_end" /\ ~isShuttingDown[p]
                /\ pc'[p] \notin {"cycle_end", "killed"}) =>
                  pc'[p] = "sleeping" /\ elapsed'[p] = 0
            /\ (pc[p] = "sleeping" /\ ~isShuttingDown[p]
                /\ pc'[p] \notin {"sleeping", "killed"}) =>
                  pc'[p] = "loop" /\ elapsed'[p] = pollInterval
            /\ (pc[p] = "loop" /\ ~isShuttingDown[p]
                /\ pc'[p] \notin {"loop", "killed"}) => pc'[p] = "poll"
        ]_vars
    /\ [](\A p \in Procs : handlers[p] =>
            /\ pc[p] # "fatal"
            /\ pc[p] \in {"shutdown", "finally", "exited"} => isShuttingDown[p]
            /\ pc[p] = "exited" => exitCode[p] = 0
            /\ pc[p] \notin {"finally", "exited", "killed"} => dbOpen[p])

\* the ledger write of a report threw out of processReport; the daemon has
\* slept and is in the discovery of the next cycle
C15_Witness ==
    /\ pc[1] = "scanning"
    /\ fixResult[1] = "escaped"
    /\ elapsed[1] = pollInterval
    /\ dbOpen[1] /\ lockPath[1]

\* C16: the report handed to the Fix Executor shares no bugId with the
\* reports still queued in the cycle, nothing is added to the queue while
\* reports are processed, and no discovery runs then; so a bug recorded
\* FAILED is not handed over again before the next cycle's discovery.
C16_RetryNotBeforeNextCycle ==
    /\ [][\A p \in Procs :
            /\ (pc[p] = "for_reports" /\ pc'[p] = "fixing") =>
                  BugsOf(cur'[p]) \cap ReportBugIds(reports'[p]) = {}
            /\ (pc[p] \in {"for_reports", "fixing", "posting"}
                /\ pc'[p] \in {"for_reports", "fixing", "posting"}) =>
                  \/ reports'[p] = reports[p]
                  \/ reports[p] # << >> /\ reports'[p] = Tail(reports[p])
            /\ (pc[p] = "fixing" /\ fixResult'[p] = "throw") =>
                  BugsOf(cur[p]) \cap ReportBugIds(reports'[p]) = {}
            /\ pc'[p] = "fixing" => pc[p] \in {"for_reports", "fixing"}
        ]_vars
    /\ [](\A p \in Procs :
            pc[p] \in {"for_reports", "fixing", "posting"} => scan[p] = NoScan)

\* b1 was recorded FAILED in an earlier cycle and is with the Fix Executor
\* again
C16_Witness ==
    /\ pc[1] = "fixing"
    /\ "b1" \in BugsOf(cur[1])
    /\ ledger["b1"].outcome = FAILED

\* the rows of the table for a bugId
RowsOf(b) == {r \in table : r.bug_id = b}

\* C17: isBugProcessed(bugId) is true exactly when the table has a row for
\* bugId whose fix_commit_sha is not FAILED: false without row, false for a
\* FAILED row, true for a null row.
C17_IsBugProcessed ==
    \A b \in BugIds :
        /\ isBugProcessed(ledger, b) <=>
              \E r \in RowsOf(b) : r.fix_commit_sha # "FAILED"
        /\ RowsOf(b) = {} => ~isBugProcessed(ledger, b)
        /\ (\E r \in RowsOf(b) : r.fix_commit_sha = "FAILED") =>
              ~isBugProcessed(ledger, b)
        /\ (\E r \in RowsOf(b) : r.fix_commit_sha = "null") =>
              isBugProcessed(ledger, b)

\* b1 has a null row, b2 a FAILED row and b3 no row
C17_Witness ==
    /\ ~call.running
    /\ \E r \in RowsOf("b1") : r.fix_commit_sha = NULL
    /\ \E r \in RowsOf("b2") : r.fix_commit_sha = FAILED
    /\ RowsOf("b3") = {}
    /\ isBugProcessed(ledger, "b1")
    /\ ~isBugProcessed(ledger, "b2") /\ ~isBugProcessed(ledger, "b3")

\* C18: the failed-bug check is true exactly when at least one row of the
\* table, of the given repository or of any repository, has fix_commit_sha
\* FAILED.
C18_HasFailedBugs ==
    /\ \A repo \in {"o/r1", "o/r2", "o/r3"} :
          hasFailedBugsForRepo(ledger, repo) <=>
             Cardinality({r \in table : r.fix_commit_sha = "FAILED"
                                        /\ r.repo = repo}) >= 1
    /\ hasFailedBugs(ledger) <=>
          Cardinality({r \in table : r.fix_commit_sha = "FAILED"}) >= 1

\* the only FAILED row is of o/r2: the check is true for o/r2 and for all
\* repositories, false for o/r1 although o/r1 has a row
C18_Witness ==
    /\ ~call.running
    /\ \E r \in table : r.fix_commit_sha = FAILED /\ r.repo = "o/r2"
    /\ \E r \in table : r.fix_commit_sha = SHA /\ r.repo = "o/r1"
    /\ hasFailedBugsForRepo(ledger, "o/r2") /\ hasFailedBugs(ledger)
    /\ ~hasFailedBugsForRepo(ledger, "o/r1")

\* C19: a recordProcessedBugs call that returns leaves, for every entry, a
\* row with the call's outcome and the call's one timestamp; a call that
\* throws at any of its inserts leaves the table as it was.
C19_RecordIsAtomic ==
    [][(call.running /\ ~call'.running) =>
          /\ call'.ok <=> call.failAt = 0
          /\ IF call'.ok
             THEN \A i \in 1..Len(call.bugs) :
                     \E r \in table' :
                        /\ r.bug_id = call.bugs[i].bugId
                        /\ r.fix_commit_sha = call.fixCommitSha
                        /\ r.processed_at = call.now
             ELSE table' = table /\ ledger' = ledger
      ]_vars

\* a call threw at its second insert and the table, which was not empty,
\* is as before
C19_Witness ==
    /\ ~call.running /\ ~call.ok
    /\ call.failAt = 2
    /\ table # {}

\* C20: the table has at most one row per bugId; after a call that returns,
\* the row of each bugId it named has the outcome and timestamp of the call
\* and the repo and PR number of the last entry that named it, and the rows
\* of the other bugIds are unchanged; the daemon's view agrees with the table.
C20_UpsertAsOverwrite ==
    /\ [](\A r1, r2 \in table : r1.bug_id = r2.bug_id => r1 = r2)
    /\ [](~call.running => ledger = Project(table))
    /\ [][(call.running /\ ~call'.running /\ call'.ok) =>
            \A b \in BugIds :
               LET named == {i \in 1..Len(call.bugs) : call.bugs[i].bugId = b}
                   last == CHOOSE i \in named : \A j \in named : j <= i
               IN IF named = {}
                  THEN {r \in table' : r.bug_id = b} = RowsOf(b)
                  ELSE {r \in table' : r.bug_id = b} =
                          {[bug_id |-> b,
                            repo |-> call.bugs[last].repo,
                            pr_number |-> call.bugs[last].prNumber,
                            processed_at |-> call.now,
                            fix_commit_sha |-> call.fixCommitSha]}
        ]_vars

\* a call with outcome sha1 replaced a FAILED row of b1
C20_Witness ==
    /\ ~call.running /\ call.ok
    /\ call.fixCommitSha = SHA
    /\ FAILED \in call.replaced
    /\ \E r \in RowsOf("b1") : r.fix_commit_sha = SHA
    /\ Cardinality(table) = 2

\* the comments whose bug the restarted daemon (process 2) fetched as a
\* candidate on a PR it found open, in a thread it found unresolved
Actionable(p) ==
    {c \in Range(world) :
        /\ c \in CandidatesOf(p, c.repo, c.pr)
        /\ \E e \in PrCalls(p, c.repo, c.pr) :
              e.op = "getPullRequest" /\ e.ok /\ e.open
        /\ \E e \in PrCalls(p, c.repo, c.pr) :
              e.op = "getResolvedCommentIds" /\ e.ok /\ c.id \notin e.ids}

\* C21 as stated: after the crash between commit and ledger write, the first
\* discovery of the restarted daemon in which no remote call fails, no PR is
\* found closed and no thread resolved returns the bugs of the lost report.
C21_RediscoveredAfterRestart ==
    \A b \in pushed :
        (/\ pc[1] = "killed" /\ pc[2] = "polled"
         /\ ~NonFailed(scan[2].pre[b])
         /\ \A e \in Calls(2) :
               /\ e.ok
               /\ e.op = "getPullRequest" => e.open
               /\ e.op = "getResolvedCommentIds" => e.ids = {})
            => b \in ReportBugIds(reports[2])

\* C21: a crash after the Fix Executor's commit and before the ledger write
\* leaves the ledger as it was, without a non-FAILED row for the bugs of the
\* report; when a discovery of the restarted daemon fetches the comment of
\* such a bug (the comment is inside the scan window), finds the PR open and
\* the thread unresolved, it returns the bug, and the for loop hands every
\* returned report to the Fix Executor.
C21_CrashTolerance ==
    /\ [](\A c \in Range(world) :
             (/\ pc[1] = "killed" /\ pc[2] = "polled"
              /\ c.bugId \in pushed
              /\ c \in Actionable(2))
                => c.bugId \in ReportBugIds(reports[2]))
    /\ [][/\ (pc[1] = "posting" /\ pc'[1] = "killed") =>
                /\ ledger' = ledger
                /\ \A b \in BugsOf(cur[1]) :
                      b \in pushed' /\ ~NonFailed(ledger'[b])
          /\ (/\ pc[2] = "for_reports" /\ reports[2] # << >>
              /\ ~isShuttingDown[2]
              /\ pc'[2] \notin {"for_reports", "killed"}) =>
                /\ pc'[2] = "fixing"
                /\ cur'[2] = Head(reports[2])]_vars

\* process 1 died with the commit for b1 pushed and no ledger row; its
\* restart has b1 in the hands of the Fix Executor again
C21_Witness ==
    /\ pc[1] = "killed"
    /\ "b1" \in pushed
    /\ ledger["b1"] = NoRow
    /\ pc[2] = "fixing"
    /\ BugsOf(cur[2]) = {"b1"}

\* C22 as stated: a process that has acquired the lock token and has then
\* ended, by returning from main, by the fatal path or by a termination
\* signal, has left no token of its own behind.
C22_LockRemovedOnExit ==
    \A p \in Procs :
        (/\ lockPath[p]
         /\ \/ pc[p] = "exited"
            \/ pc[p] = "killed" /\ exitCode[p] = SignalStatus(15))
            => lockFile.creator # p

\* C23: when a discovery call returns, every fetched bot comment that parses
\* to a bugId without a non-FAILED ledger row, on a PR found open, in a
\* thread found unresolved, is in exactly one report, the one of its PR; a
\* report holds nothing but such bugs of its PR and no PR without such a bug
\* has a report; a bugId recorded with a commit SHA before the call is in no
\* report.
C23_DiscoveryCompleteness ==
    \A p \in Procs : pc[p] = "polled" =>
        LET rs == reports[p] IN
        /\ rs = scan[p].result
        /\ \A c \in Actionable(p) :
              /\ {i \in 1..Len(rs) : c.bugId \in BugsOf(rs[i])} =
                    ReportsOfPr(rs, c.repo, c.pr)
              /\ Cardinality(ReportsOfPr(rs, c.repo, c.pr)) = 1
        /\ \A i \in 1..Len(rs) :
              /\ BugsOf(rs[i]) # {}
              /\ BugsOf(rs[i]) =
                    {c.bugId : c \in {x \in Actionable(p) :
                        x.repo = rs[i].pr.repo /\ x.pr = rs[i].pr.number}}
              /\ Len(rs[i].bugs) = Cardinality(BugsOf(rs[i]))
        /\ \A b \in BugIds :
              scan[p].pre[b].outcome = SHA => b \notin ReportBugIds(rs)

\* a second discovery: b1 was returned before and recorded with the commit
\* SHA; its comment is fetched again and only b2 is returned for PR 1, next
\* to the report of PR 2 with b3
C23_Witness ==
    /\ pc[1] = "polled"
    /\ scan[1].pre["b1"].outcome = SHA
    /\ 1 \in ListedIds(1, "o/r1")
    /\ Len(reports[1]) = 2
    /\ BugsOf(reports[1][1]) = {"b2"}
    /\ BugsOf(reports[1][2]) = {"b3"}

\* C24: a process that has left main ended with code 0 exactly when it left
\* the polling loop by the shutdown flag, and with code 1 otherwise: when
\* loadConfig threw (acquireLock was not reached), when the lock was held by
\* a live process and when initialize() threw; a process whose loadConfig
\* threw changes neither the lock file nor the ledger and never opens the
\* ledger.
C24_ExitStatus ==
    /\ [](\A p \in Procs : pc[p] = "exited" =>
             /\ exitCode[p] \in {0, 1}
             /\ exitCode[p] = 0 <=> (handlers[p] /\ isShuttingDown[p])
             /\ lockResult[p] = "none" =>
                   exitCode[p] = 1 /\ ~lockPath[p] /\ p \notin opened
             /\ lockResult[p] = "live" =>
                   exitCode[p] = 1 /\ ~lockPath[p] /\ p \notin opened
             /\ (p \in opened /\ ~handlers[p]) => exitCode[p] = 1)
    /\ [][\A p \in Procs :
             (\/ pc[p] = "load_config" /\ pc'[p] = "fatal"
              \/ pc[p] = "fatal" /\ lockResult[p] = "none"
                                 /\ pc'[p] = "exited") =>
                /\ lockFile' = lockFile
                /\ ledger' = ledger
                /\ opened' = opened
                /\ ~lockPath'[p]]_vars

\* process 1 has stopped gracefully with code 0; process 2 failed on its
\* configuration with code 1, without lock token and without ledger
C24_Witness ==
    /\ pc[1] = "exited" /\ exitCode[1] = 0 /\ isShuttingDown[1]
    /\ pc[2] = "exited" /\ exitCode[2] = 1 /\ lockResult[2] = "none"
    /\ 2 \notin opened

\* process 2 failed with code 1 on the lock held by the live process 1
C24_WitnessLive ==
    /\ Alive(1) /\ lockPath[1]
    /\ pc[2] = "exited" /\ exitCode[2] = 1 /\ lockResult[2] = "live"

\* process 1 failed with code 1 in initialize(), after it had the lock
C24_WitnessTooling ==
    /\ pc[1] = "exited" /\ exitCode[1] = 1
    /\ 1 \in opened /\ ~handlers[1] /\ lockPath[1]

OnClosedPr(p) ==
    {c \in Range(world) :
        /\ c \in CandidatesOf(p, c.repo, c.pr)
        /\ \E e \in PrCalls(p, c.repo, c.pr) :
              e.op = "getPullRequest" /\ e.ok /\ ~e.open}

\* the fetched candidate comments of a discovery call whose PR was found
\* open and whose thread was found resolved
InResolvedThread(p) ==
    {c \in Range(world) :
        /\ c \in CandidatesOf(p, c.repo, c.pr)
        /\ \E e \in PrCalls(p, c.repo, c.pr) :
              e.op = "getPullRequest" /\ e.ok /\ e.open
        /\ \E e \in PrCalls(p, c.repo, c.pr) :
              e.op = "getResolvedCommentIds" /\ e.ok /\ c.id \in e.ids}

FailedIn(db) == {b \in BugIds : db[b].outcome = FAILED}

\* C26: when a discovery call started with FAILED rows, fetched the comment
\* of each of them and found each on a closed PR or in a resolved thread,
\* then at its return each of these rows is SKIPPED_PR_CLOSED or
\* SKIPPED_RESOLVED and the ledger has no FAILED row; a FAILED row appears
\* in a ledger without one only by a throw of the Fix Executor, and a
\* discovery call that starts on a ledger without FAILED rows scans from
\* now - DEFAULT_LOOKBACK_DAYS.
C26_BoundedWindowRestored ==
    /\ [](\A p \in Procs :
             (/\ pc[p] = "polled"
              /\ FailedIn(scan[p].pre) # {}
              /\ FailedIn(scan[p].pre) \subseteq
                    {c.bugId : c \in OnClosedPr(p) \cup InResolvedThread(p)})
                => /\ \A c \in OnClosedPr(p) :
                         ledger[c.bugId] = [outcome |-> SKIPPED_PR_CLOSED,
                                            repo |-> c.repo, prNumber |-> c.pr]
                   /\ \A c \in InResolvedThread(p) :
                         ledger[c.bugId] = [outcome |-> SKIPPED_RESOLVED,
                                            repo |-> c.repo, prNumber |-> c.pr]
                   /\ FailedIn(ledger) = {})
    /\ [][/\ (FailedIn(ledger) = {} /\ FailedIn(ledger') # {}) =>
                \E p \in Procs : pc[p] = "fixing" /\ fixResult'[p] = "throw"
          /\ \A p \in Procs :
                (pc[p] = "poll" /\ pc'[p] = "scanning"
                                /\ FailedIn(ledger) = {}) =>
                   scan'[p].since = {scan'[p].now - DEFAULT_LOOKBACK_DAYS}]_vars

\* the call started with b1, b2 and b3 FAILED; PR 1 was open with both
\* threads resolved, PR 2 was closed; no FAILED row is left
C26_Witness ==
    /\ pc[1] = "polled"
    /\ FailedIn(scan[1].pre) = {"b1", "b2", "b3"}
    /\ ledger["b1"].outcome = SKIPPED_RESOLVED
    /\ ledger["b2"].outcome = SKIPPED_RESOLVED
    /\ ledger["b3"].outcome = SKIPPED_PR_CLOSED
    /\ scan[1].since = {}

\* the lifecycle phase of a position in main(): 0 not started, 1 STARTING,
\* 2 LOCKING, 3 INITIALIZING, 4 RUNNING, 5 SHUTTING_DOWN, 6 STOPPED
Phase(at) ==
    CASE at = "idle" -> 0
      [] at = "load_config" -> 1
      [] at \in {"acquire", "lock_write", "lock_read", "lock_probe",
                 "lock_unlink", "lock_recreate", "lock_rewrite"} -> 2
      [] at \in {"construct", "initialize"} -> 3
      [] at \in {"run", "loop", "poll", "scanning", "polled", "for_reports",
                 "fixing", "posting", "cycle_end", "sleeping"} -> 4
      [] at \in {"shutdown", "finally", "fatal"} -> 5
      [] at \in {"exited", "killed"} -> 6

\* C27: a daemon process never goes back to an earlier phase and skips a
\* phase only by failing fatally or by being killed; it leaves RUNNING for
\* SHUTTING_DOWN only with the shutdown flag set; while it is RUNNING (so
\* whenever it discovers or fixes) it has acquired the lock and the lock
\* token holds its pid.
C27_LifecycleOrder ==
    /\ [](\A p \in Procs : Phase(pc[p]) = 4 =>
             /\ lockPath[p]
             /\ lockFile = [creator |-> p, content |-> {p}])
    /\ [][\A p \in Procs :
             /\ Phase(pc'[p]) >= Phase(pc[p])
             /\ Phase(pc'[p]) > Phase(pc[p]) + 1 =>
                   pc'[p] \in {"fatal", "killed"}
             /\ (Phase(pc[p]) = 4 /\ Phase(pc'[p]) = 5) =>
                   isShuttingDown[p] /\ pc'[p] = "shutdown"
             /\ Phase(pc[p]) >= 5 => Phase(pc'[p]) # 4]_vars

\* the daemon went through every phase: it recorded a commit for b1 while
\* RUNNING and has stopped with the token removed
C27_Witness ==
    /\ pc[1] = "exited"
    /\ exitCode[1] = 0
    /\ ledger["b1"].outcome = SHA
    /\ lockFile = NoFile

\* C28 as stated: a process whose lock token exists has opened the ledger
\* before.
C28_LedgerBeforeLock ==
    \A p \in Procs : lockFile.creator = p => p \in opened

\* C28: the ledger is opened only by a process that has acquired the lock
\* token before, by creating it or by reclaiming a stale one; up to the end
\* of acquireLock the process has not opened the ledger.
C28_LockBeforeLedger ==
    /\ [](\A p \in Procs :
             /\ p \in opened =>
                   lockPath[p] /\ lockResult[p] \in {"created", "reclaimed"}
             /\ Phase(pc[p]) \in {1, 2} => p \notin opened /\ ~dbOpen[p])
    /\ [][\A p \in Procs :
             (p \notin opened /\ p \in opened') =>
                /\ pc[p] = "construct"
                /\ lockPath[p]
                /\ lockFile' = lockFile]_vars

\* process 1 has created the token and then opened the ledger
C28_Witness ==
    /\ pc[1] = "initialize"
    /\ 1 \in opened /\ dbOpen[1]
    /\ lockResult[1] = "created"
    /\ lockFile = [creator |-> 1, content |-> {1}]

\* C29: in the call log of a discovery, every getResolvedCommentIds call
\* comes directly after a getPullRequest call for the same PR that returned
\* an open PR; a PR reported closed or inaccessible, and a PR whose
\* getPullRequest call threw, has no getResolvedCommentIds call; when the
\* discovery returns, every PR with candidates has had its getPullRequest
\* call, exactly one.
C29_PhaseOrder ==
    \A p \in Procs : InDiscovery(p) =>
        LET calls == scan[p].calls IN
        /\ \A i \in 1..Len(calls) :
              calls[i].op = "getResolvedCommentIds" =>
                 /\ i > 1
                 /\ calls[i - 1].op = "getPullRequest"
                 /\ calls[i - 1].repo = calls[i].repo
                 /\ calls[i - 1].pr = calls[i].pr
                 /\ calls[i - 1].ok /\ calls[i - 1].open
        /\ \A i \in 1..Len(calls) :
              (calls[i].op = "getPullRequest"
                  /\ ~(calls[i].ok /\ calls[i].open)) =>
                 \A j \in 1..Len(calls) :
                    ~(/\ calls[j].op = "getResolvedCommentIds"
                      /\ calls[j].repo = calls[i].repo
                      /\ calls[j].pr = calls[i].pr)
        /\ pc[p] = "polled" =>
              \A c \in Range(world) :
                 c \in CandidatesOf(p, c.repo, c.pr) =>
                    Cardinality({i \in 1..Len(calls) :
                        /\ calls[i].op = "getPullRequest"
                        /\ calls[i].repo = c.repo
                        /\ calls[i].pr = c.pr}) = 1

\* PR 1 was found open and its resolved threads were fetched next; PR 2 was
\* found closed and no resolved threads were fetched for it
C29_Witness ==
    /\ pc[1] = "polled"
    /\ \E i \in 1..Len(scan[1].calls) - 1 :
          /\ scan[1].calls[i].op = "getPullRequest"
          /\ scan[1].calls[i].pr = 1 /\ scan[1].calls[i].open
          /\ scan[1].calls[i + 1].op = "getResolvedCommentIds"
          /\ scan[1].calls[i + 1].pr = 1
    /\ \E e \in PrCalls(1, "o/r2", 2) :
          e.op = "getPullRequest" /\ e.ok /\ ~e.open
    /\ \A e \in PrCalls(1, "o/r2", 2) : e.op # "getResolvedCommentIds"

\* the owner/repo keys of the well-formed entries of a repository list
ExplicitKeys(specs) ==
    {x[1] \o "/" \o x[2] :
        x \in {y \in Range(specs) : Len(y) >= 2 /\ y[1] # "" /\ y[2] # ""}}

\* the owner/repo keys of the repositories of an organization
OwnerKeys(org) ==
    {OwnerRepos(org)[i].owner \o "/" \o OwnerRepos(org)[i].name :
        i \in 1..Len(OwnerRepos(org))}

\* the configured organizations whose listOwnerRepos call threw
FailedOrgs(l) ==
    {o \in Range(l.orgs) : l.err = ErrCall("listOwnerRepos", o, 0)}

\* C30: the list getAllMonitoredRepos returns names no repository twice and
\* holds exactly the well-formed explicit repositories and the repositories
\* of the organizations whose listing did not throw; listOwnerRepos is
\* called once per configured organization, also after a failure.
C30_MonitoredRepoSet ==
    listing.done =>
        /\ Len(listing.repos) = Cardinality(Range(listing.repos))
        /\ Range(listing.repos) =
              ExplicitKeys(listing.specs)
              \cup UNION {OwnerKeys(o) :
                             o \in Range(listing.orgs) \ FailedOrgs(listing)}
        /\ Len(listing.calls) = Len(listing.orgs)
        /\ \A i \in 1..Len(listing.calls) :
              /\ listing.calls[i].op = "listOwnerRepos"
              /\ listing.calls[i].repo = listing.orgs[i]

\* o/r1 is named twice and organization "o", listed first, fails: the list
\* is o/r1 once and the repository of organization "p"
C30_Witness ==
    /\ listing.done
    /\ listing.specs = << <<"o", "r1">>, <<"o", "r1">> >>
    /\ listing.orgs = << "o", "p" >>
    /\ FailedOrgs(listing) = {"o"}
    /\ listing.repos = << "o/r1", "p/r3" >>

\* in a discovery call of the daemon no repository is scanned twice
C30_ScannedOnce ==
    \A p \in Procs : InDiscovery(p) =>
        \A i, j \in 1..Len(scan[p].calls) :
            (/\ scan[p].calls[i].op = "listRepoBugbotComments"
             /\ scan[p].calls[j].op = "listRepoBugbotComments"
             /\ scan[p].calls[i].repo = scan[p].calls[j].repo) => i = j

C31_WitnessWritten ==
    /\ pc[1] = "for_reports"
    /\ isShuttingDown[1]
    /\ cur[1].pr.number = 1
    /\ writes[1] = << [bugs |-> {"b1"}, outcome |-> SHA] >>
    /\ ledger["b1"].outcome = SHA
    /\ dbOpen[1]

\* ------------------------------------------------------------------------
\* C32: fix execution terminates and a timed out run is recorded FAILED
\* ------------------------------------------------------------------------

\* C32 (as stated, for the timeout): a run of the fix tool that outlived the
\* timeout, so that SIGTERM was sent, rejects, and its report is recorded
\* FAILED.
C32_TimeoutRejects ==
    (child.late /\ child.result # "none") =>
        /\ child.promise = "rejected"
        /\ OutcomeOf(child.result) = FAILED

\* the timer fired, SIGTERM was sent, the tool then closed with code 0 and
\* its edits were committed
C32_LateResolved ==
    /\ child.late
    /\ child.code = 0
    /\ child.promise = "resolved"
    /\ child.result = "commit"

\* the promise settles at most once: resolved only for code 0 without one of
\* the two kill signals, rejected for every other close and for a spawn error
C32_SettlesOnce ==
    /\ child.settles <= 1
    /\ child.settled <=> child.promise # "pending"
    /\ child.settled <=> child.settles = 1
    /\ child.promise = "resolved" =>
           child.code = 0 /\ child.signal = "none" /\ child.value = child.stdout
    /\ (child.state = "closed" /\ (child.code # 0 \/ child.signal # "none")) =>
           child.promise = "rejected"
    /\ child.state = "errored" => child.promise = "rejected"
    /\ "SIGKILL" \in child.sent => "SIGTERM" \in child.sent /\ child.late

\* every started run settles, and its caller gets a result
C32_Terminates == (child.state # "none") ~> (child.result # "none")

\* ------------------------------------------------------------------------
\* C33: the ledger write and the summary comment
\* ------------------------------------------------------------------------

\* C33 (as stated): while the summary comment of a committed fix is being
\* posted, the ledger already holds the commit outcome for every bug of the
\* report.
C33_RecordedBeforeComment ==
    \A p \in Procs :
        pc[p] = "posting" =>
            \A b \in BugsOf(cur[p]) : ledger[b].outcome = SHA

\* the comment is being posted for a pushed commit and the ledger has no
\* row for a bug of the report
C33_PostingUnrecorded ==
    /\ pc[1] = "posting"
    /\ fixResult[1] = "commit"
    /\ \E b \in BugsOf(cur[1]) : b \in pushed /\ ledger[b] = NoRow

\* ------------------------------------------------------------------------
\* C34: terminal outcomes are stable
\* ------------------------------------------------------------------------

\* C34: each bugId being carried by one comment on one PR, no step of the
\* daemon changes a ledger row whose outcome is not FAILED; a step changes
\* only rows that were absent or FAILED.
C34_TerminalOutcomesStable ==
    [][\A b \in BugIds :
          ledger'[b] # ledger[b] =>
              /\ ledger[b] = NoRow \/ ledger[b].outcome = FAILED
              /\ ledger'[b].outcome \in Outcomes]_vars

\* a later cycle is fixing a bug of a PR while another bug of that PR keeps
\* the null outcome an earlier cycle recorded
C34_Witness ==
    /\ pc[1] = "fixing"
    /\ ledger["b1"].outcome = NULL
    /\ BugsOf(cur[1]) = {"b2"}

\* ------------------------------------------------------------------------
\* C35: the ledger footprint of discovery
\* ------------------------------------------------------------------------

\* the state and resolved-thread fetches that threw in the discovery log
FailedPrFetches(calls) ==
    {e \in Range(calls) :
        e.op \in {"getPullRequest", "getResolvedCommentIds"} /\ ~e.ok}

\* the bugIds carried by the comments of a PR
BugIdsOfPr(repo, prNumber) ==
    {c.bugId : c \in {x \in Range(world) :
                         x.repo = repo /\ x.pr = prNumber /\ x.bugId # ""}}

\* C35: a ledger row that a step of a discovery call changes gets the
\* outcome SKIPPED_PR_CLOSED or SKIPPED_RESOLVED, isBugProcessed was false for
\* its bugId in that call, the bugId is not in a returned report and no
\* state or resolved-thread fetch of its PR threw; every other row is left as
\* it was.  Over the whole call, the rows that differ from the ledger at the
\* start of the call are rows the call's log has a write for.
C35_DiscoveryFootprint ==
    /\ [][\A p \in Procs : pc[p] = "scanning" =>
            \A b \in BugIds : ledger'[b] # ledger[b] =>
                /\ ledger'[b].outcome \in {SKIPPED_PR_CLOSED, SKIPPED_RESOLVED}
                /\ ~isBugProcessed(ledger, b)
                /\ ~isBugProcessed(scan[p].pre, b)
                /\ b \notin ReportBugIds(scan'[p].result)
                /\ \A e \in FailedPrFetches(scan'[p].calls) :
                      b \notin BugIdsOfPr(e.repo, e.pr)]_vars
    /\ [](\A p \in Procs : InDiscovery(p) =>
            /\ \A b \in BugIds : ledger[b] # scan[p].pre[b] =>
                  \E w \in Calls(p) :
                      /\ w.op = "recordProcessedBugs"
                      /\ b \in w.bugs
                      /\ w.outcome = ledger[b].outcome
                      /\ w.outcome \in {SKIPPED_PR_CLOSED, SKIPPED_RESOLVED}
            /\ \A b \in ReportBugIds(scan[p].result) :
                  ledger[b] = scan[p].pre[b]
            /\ \A e \in FailedPrFetches(scan[p].calls) :
                  \A b \in BugIdsOfPr(e.repo, e.pr) :
                      ledger[b] = scan[p].pre[b])

\* one call recorded b1 SKIPPED_RESOLVED, returned b2 of the same PR without
\* a write, and wrote nothing for PR 2 whose resolved threads it could not
\* fetch
C35_Witness ==
    /\ pc[1] = "polled"
    /\ scan[1].pre["b1"] = NoRow
    /\ ledger["b1"].outcome = SKIPPED_RESOLVED
    /\ "b2" \in ReportBugIds(reports[1])
    /\ ledger["b2"] = NoRow
    /\ \E e \in FailedPrFetches(scan[1].calls) : e.pr = 2
    /\ ledger["b3"] = NoRow

\* ------------------------------------------------------------------------
\* C36: no duplicates in a discovery result
\* ------------------------------------------------------------------------

\* the places <<report, bug>> of a list of reports that hold the bugId
PlacesOf(rs, b) ==
    {<<i, k>> \in (1..Len(rs)) \X (1..MaxPlaces) :
        k <= Len(rs[i].bugs) /\ rs[i].bugs[k].bugId = b}

\* C36 (as stated): in the list a discovery call returns each PR has at most
\* one report, each bugId is in at most one place, also when the remote
\* yields two bot comments with the same bugId, and no returned bugId was
\* recorded SKIPPED_RESOLVED by the call.
C36_NoDuplicates ==
    \A p \in Procs : pc[p] = "polled" =>
        /\ \A i, j \in 1..Len(reports[p]) :
              reports[p][i].pr = reports[p][j].pr => i = j
        /\ \A b \in BugIds : Cardinality(PlacesOf(reports[p], b)) <= 1
        /\ \A b \in ReportBugIds(reports[p]) :
              ~\E w \in Calls(p) :
                  /\ w.op = "recordProcessedBugs"
                  /\ b \in w.bugs
                  /\ w.outcome = SKIPPED_RESOLVED

\* the report of PR 1 holds b1 twice
C36_ReturnedTwice ==
    /\ pc[1] = "polled"
    /\ Cardinality(PlacesOf(reports[1], "b1")) = 2

\* b1 is returned for one comment and recorded SKIPPED_RESOLVED for the other
C36_ReturnedAndSkipped ==
    /\ pc[1] = "polled"
    /\ "b1" \in ReportBugIds(reports[1])
    /\ ledger["b1"].outcome = SKIPPED_RESOLVED

\* without a repeated bugId: each PR has at most one report and each bugId
\* is in at most one place
C36_NoDuplicatesUniqueIds ==
    \A p \in Procs : pc[p] = "polled" =>
        /\ \A i, j \in 1..Len(reports[p]) :
              reports[p][i].pr = reports[p][j].pr => i = j
        /\ \A b \in BugIds : Cardinality(PlacesOf(reports[p], b)) <= 1

\* ------------------------------------------------------------------------
\* C37: sleep leaves no timer behind
\* ------------------------------------------------------------------------

\* the sleep() calls that have returned with a timer still pending
Leaked ==
    {k \in 1..Len(timers.sleeps) :
        /\ timers.sleeps[k].resolved
        /\ \/ timers.sleeps[k].timeout = "pending"
           \/ timers.sleeps[k].interval = "pending"}

\* C37 (as stated): when a sleep() call has returned, by its timeout or by
\* shutdown, neither its timeout nor its shutdown check is pending.
C37_NoTimerLeft == Leaked = {}

\* two sleeps have returned by their timeouts, the third is running, and
\* the shutdown checks of all three are pending
C37_IntervalsGrow ==
    /\ Len(timers.sleeps) = 3
    /\ Leaked = {1, 2}
    /\ ~timers.sleeps[3].resolved
    /\ \A k \in 1..3 : timers.sleeps[k].interval = "pending"

\* a sleep that returns by shutdown leaves no timer, and the timeout of a
\* returned sleep is never pending: what stays behind is the shutdown check
\* of a sleep that returned by its timeout
C37_ShutdownClearsBoth ==
    \A k \in 1..Len(timers.sleeps) :
        /\ timers.sleeps[k].resolved => timers.sleeps[k].timeout # "pending"
        /\ timers.sleeps[k].timeout = "cleared" =>
               timers.sleeps[k].interval = "cleared"
        /\ k \in Leaked => timers.sleeps[k].timeout = "fired"

\* ------------------------------------------------------------------------
\* C38: a failed start leaves the holder's token alone
\* ------------------------------------------------------------------------

\* C38: the steps of a start that fails because the token names a live
\* process, the probe that finds the holder alive and the exit through the
\* catch block, leave the token in place with its content unchanged; the
\* failing process has no lock path to release.
C38_FailedStartKeepsToken ==
    /\ [][\A p \in Procs :
            (pc'[p] # pc[p] /\ lockResult'[p] = "live") =>
                /\ pc[p] \in {"lock_probe", "fatal"}
                /\ lockFile' = lockFile]_vars
    /\ [](\A p \in Procs : lockResult[p] = "live" => ~lockPath[p])

\* process 2 found the token of the sleeping process 1, exited with code 1,
\* and the token still names process 1
C38_Witness ==
    /\ pc[2] = "exited" /\ exitCode[2] = 1
    /\ lockResult[2] = "live"
    /\ pc[1] = "sleeping"
    /\ lockFile = [creator |-> 1, content |-> {1}]

\* ------------------------------------------------------------------------
\* C39: a process removes only its own lock
\* ------------------------------------------------------------------------

\* C39 (as stated): no exit of a process deletes a token whose content is the
\* pid of another process that is still running.
C39_RemovesOnlyOwnLock ==
    [][\A p \in Procs :
          (pc[p] \in {"fatal", "finally"} /\ pc'[p] # pc[p] /\
           lockFile # NoFile /\ lockFile' = NoFile) =>
              ~\E q \in lockFile.content : q # p /\ Alive(q)]_vars

\* process 1 is about to leave through the finally block with its lock path
\* set while the token names the running process 2, which holds it as well
C39_ForeignToken ==
    /\ pc[1] = "finally" /\ lockPath[1]
    /\ lockFile.content = {2}
    /\ Alive(2) /\ lockPath[2]

\* ------------------------------------------------------------------------
\* C40: no fix is started after the shutdown request
\* ------------------------------------------------------------------------

\* C40: with the shutdown flag set no step starts a Fix Executor call; the
\* head of the for loop then drops the reports that are left without a
\* ledger write, their bugs keep a row that is absent or FAILED, so that
\* isBugProcessed stays false for them, and no step from there to the exit
\* writes the ledger.
C40_NoFixAfterShutdown ==
    [][\A p \in Procs : isShuttingDown[p] =>
          /\ pc'[p] = "fixing" => pc[p] = "fixing"
          /\ (pc[p] = "for_reports" /\ pc'[p] # "for_reports") =>
                /\ pc'[p] \in {"cycle_end", "killed"}
                /\ pc'[p] = "cycle_end" => reports'[p] = << >>
                /\ \A b \in ReportBugIds(reports[p]) :
                      /\ ledger'[b] = ledger[b]
                      /\ ledger[b] = NoRow \/ ledger[b].outcome = FAILED
                      /\ ~isBugProcessed(ledger', b)
          /\ pc[p] \in {"for_reports", "cycle_end", "loop", "shutdown",
                        "finally"} => ledger' = ledger]_vars

\* the signal arrived while PR 1 was being fixed: its report was processed
\* and written, the loop is at its head with the flag set and the report of
\* PR 2 still queued, b3 having no row
C40_Witness ==
    /\ pc[1] = "for_reports"
    /\ isShuttingDown[1]
    /\ writes[1] # << >>
    /\ ledger["b1"] # NoRow
    /\ ReportBugIds(reports[1]) = {"b3"}
    /\ ledger["b3"] = NoRow

====
